---- MODULE Spec2Model ----
(***************************************************************************)
(* FieldOS CRM delivery subsystem (crm_sync.py and its callers in app.py). *)
(*                                                                         *)
(* One Streamlit session is modelled in detail: its pending queue, its     *)
(* offline cache, the session flags, the snapshot file, the Ops Log file,  *)
(* the background worker thread and the UI (script) thread.  Start-up of   *)
(* the worker is modelled for every session of the process, because the    *)
(* thread registry that guards it is process wide.                         *)
(*                                                                         *)
(* Strings are modelled by small integers: a payload's `note` (its         *)
(* content) is the number uid, a timestamp `ts` is a clock value, a        *)
(* generated uuid token is UuidBase + a counter.  0 stands for an absent   *)
(* key / None, -1 for an absent `_crm_retry_attempts`.                      *)
(***************************************************************************)
EXTENDS Integers, Sequences, FiniteSets, TLC

----------------------------------------------------------------------------
(* Bounds of the model.  Every specification below starts from a scenario
   record that holds the bounds of that specification. *)
MaxEnqueue == 2        \* payloads saved / enqueued by the producer
MaxClock == 2          \* clock seconds (values of `ts`)
MaxToggles == 2        \* operator toggles of offline mode
MaxFlushes == 1        \* clicks on "Flush Offline Cache"
MaxManualRetries == 1  \* clicks on "Retry CRM Push"
MaxFaults == 1         \* snapshot / Ops Log write failures injected
MaxRestarts == 1       \* process restarts
MaxLoads == 2          \* calls of load_snapshot on a migrated file
MaxSaves == 1          \* calls of save_snapshot on a stored file
NumSessions == 2       \* browser sessions (script threads) of the process
OnlineMaxEnqueue == 3  \* payloads enqueued with an always-ok client
RetryMaxEnqueue == 2   \* payloads enqueued with an always-error client
OnlineMaxRetries == 3  \* largest FIELDOS_CRM_MAX_RETRIES of those scenarios
SmallMaxEnqueue == 1   \* payloads enqueued in the small scenarios
SmallMaxToggles == 1   \* offline toggles in the small scenarios
SmallMaxFaults == 2    \* file-write failures in the small scenarios
FileMaxRecords == 1    \* outcomes the worker writes with the file shared
FileMaxSaves == 1      \* telemetry saves of the UI thread with the file shared
FileMaxLoads == 1      \* script runs that load the file with the file shared

(* Program constants *)
RECENT_PAYLOAD_LIMIT == 5
UuidBase == 10
DEMO_CUSTOMER == 90     \* FOCUS_CONTACT["customer_id"]
BASELINE_CUSTOMER == 80 \* a Customer_ID of the sample ledger

Sessions == 1..NumSessions
Ui == 1                \* the session whose queue and cache are modelled

\* values FIELDOS_CRM_MAX_RETRIES may hold; BadValue is text int() rejects
BadValue == -99
ConfigValues == {BadValue, 0, 1, 2}

----------------------------------------------------------------------------
VARIABLES
    crm_queue,        \* st.session_state["crm_queue"]
    offline_cache,    \* st.session_state["offline_cache"]
    offline,          \* st.session_state["offline"]
    session,          \* the delivery flags of st.session_state
    snapshot,         \* data/crm_snapshot.json
    ops_log,          \* data/ops_log.jsonl
    env_max_retries,  \* environment variable FIELDOS_CRM_MAX_RETRIES
    clock,            \* wall clock, in seconds
    uuid_count,       \* uuid4 tokens generated so far
    worker_threads,   \* sessions whose thread named WORKER_NAME is alive
    start_pc,         \* per session: position inside start_crm_worker
    worker_started,   \* per session: st.session_state["crm_worker_started"]
    wpc,              \* worker of session Ui: position in _worker_loop
    wcur,             \* worker: the payload it popped / payload_copy
    fpc,              \* UI thread: position inside flush_offline_cache
    flush,            \* flush_offline_cache's locals
    delivered,        \* notes the CRM endpoint answered 2xx for
    hist,             \* history: counters of the environment's moves
    scenario,         \* the bounds and the delivery client of this run
    calls,            \* history: delivery-client calls the worker made, per note
    first_id,         \* history: Payload ID of each note at its first processing
    in_flight,        \* the request bodies the worker and the flush have sent
    crm_sample,       \* data/crm_sample.csv: the rows of the CRM mirror
    file_io           \* the calls of the two threads on the snapshot file

vars == <<crm_queue, offline_cache, offline, session, snapshot, ops_log,
          env_max_retries, clock, uuid_count, worker_threads, start_pc,
          worker_started, wpc, wcur, fpc, flush, delivered, hist, scenario,
          calls, first_id, in_flight, crm_sample, file_io>>

----------------------------------------------------------------------------
(* Payloads *)

NoPayload ==
    [uid |-> 0, ts |-> 0, pid |-> 0, cust |-> 0, att |-> -1, err |-> 0,
     cached |-> FALSE, crm_status |-> "none"]

\* a payload as the producer builds it: `note`, optionally `ts`
NewPayload(uid, ts) == [NoPayload EXCEPT !.uid = uid, !.ts = ts]

\* the payload _save_and_queue_crm_payload builds: it also carries the
\* customer_id of FOCUS_CONTACT
SavedPayload(uid, ts) == [NewPayload(uid, ts) EXCEPT !.cust = DEMO_CUSTOMER]

NoStatus == [state |-> "none", response_code |-> 0, error |-> 0]

\* (mutation of ResultOf: an exception of the client is taken for success)
ResultOfSwallowed(outcome) ==
    CASE outcome = "ok"     -> [status |-> "ok", response_code |-> 200, error |-> 0]
      [] outcome = "error"  -> [status |-> "error", response_code |-> 503, error |-> 1]
      [] outcome = "raised" -> [status |-> "ok", response_code |-> 0, error |-> 2]
      [] OTHER              -> [status |-> "cached", response_code |-> 0, error |-> 0]

\* what _safe_send_to_crm returns: the client's normalized result
\* dictionary, or for an exception the error shape with the exception text
\* (error 2) and no response code
ResultOf(outcome) ==
    CASE outcome = "ok"     -> [status |-> "ok", response_code |-> 200, error |-> 0]
      [] outcome = "error"  -> [status |-> "error", response_code |-> 503, error |-> 1]
      [] outcome = "raised" -> [status |-> "error", response_code |-> 0, error |-> 2]
      [] OTHER              -> [status |-> "cached", response_code |-> 0, error |-> 0]

Outcomes == {"ok", "error", "raised"}

\* _generate_payload_id: the existing id (`_crm_payload_id` or `ts`), 0 when
\* a token has to be generated
ExistingId(p) == IF p.pid # 0 THEN p.pid ELSE p.ts

GeneratePayloadId(p, token) ==
    IF ExistingId(p) # 0 THEN p ELSE [p EXCEPT !.pid = token]

\* _get_crm_config()["max_retries"]; int() raises on BadValue
ConfigRaises == env_max_retries = BadValue
MaxRetries == IF env_max_retries < 1 THEN 1 ELSE env_max_retries

\* int(payload.get("_crm_retry_attempts", 0))
RetryAttempts(p) == IF p.att < 0 THEN 0 ELSE p.att

SeqToSet(s) == {s[i] : i \in 1..Len(s)}
Uids(s) == {s[i].uid : i \in 1..Len(s)}

\* (mutation of Take: one entry more is kept)
TakeOneMore(s, n) == IF Len(s) <= n + 1 THEN s ELSE SubSeq(s, 1, n + 1)

\* the slice s[:n]
Take(s, n) == IF Len(s) <= n THEN s ELSE SubSeq(s, 1, n)

----------------------------------------------------------------------------
(* Snapshot store *)

BASE_SNAPSHOT ==
    [cached_records |-> <<>>, last_payload |-> NoPayload,
     recent_payloads |-> <<>>, last_crm_status |-> NoStatus]

\* dict.update on two payload dictionaries: a key of `new` replaces the key
\* of `old`, a key `new` lacks keeps the value `old` has
DictUpdate(old, new) ==
    [uid |-> IF new.uid # 0 THEN new.uid ELSE old.uid,
     ts |-> IF new.ts # 0 THEN new.ts ELSE old.ts,
     pid |-> IF new.pid # 0 THEN new.pid ELSE old.pid,
     cust |-> IF new.cust # 0 THEN new.cust ELSE old.cust,
     att |-> IF new.att >= 0 THEN new.att ELSE old.att,
     err |-> IF new.err # 0 THEN new.err ELSE old.err,
     cached |-> new.cached \/ old.cached,
     crm_status |-> IF new.crm_status # "none" THEN new.crm_status
                    ELSE old.crm_status]

\* save_snapshot on the three keys _update_snapshot_with_payload passes:
\* `last_payload` and `last_crm_status` are dictionaries on both sides and
\* are merged, `recent_payloads` is a list and is replaced
SaveSnapshot(snap, update) ==
    [snap EXCEPT
        !.last_payload = DictUpdate(snap.last_payload, update.last_payload),
        !.recent_payloads = update.recent_payloads,
        !.last_crm_status = update.last_crm_status]

\* _build_status_meta
BuildStatusMeta(label, result) ==
    [state |-> label, response_code |-> result.response_code,
     error |-> result.error]

\* the copy _record_crm_delivery hands to the snapshot: every `_crm_` key
\* but `_crm_payload_id` removed
PayloadForSnapshot(p) == [p EXCEPT !.att = -1, !.err = 0]

Serialized(p, label) == [PayloadForSnapshot(p) EXCEPT !.crm_status = label]

UpdateSnapshotWithPayload(snap, p, status) ==
    LET serialized == Serialized(p, status.state)
        updated_history ==
            Take(<<serialized>> \o snap.recent_payloads, RECENT_PAYLOAD_LIMIT)
    IN  SaveSnapshot(snap, [last_payload |-> serialized,
                            recent_payloads |-> updated_history,
                            last_crm_status |-> status])

\* load_snapshot's migration.  A snapshot document is a function from the
\* keys it has to their values; a sub-object is a function from its nested
\* keys.  The keys whose default is a dictionary:
DictKeys == {"last_payload", "last_crm_status"}

\* (mutation of MergeDefaults: the default replaces the stored value)
MergeDefaultsOverwrite(stored, default) ==
    [n \in DOMAIN stored \cup DOMAIN default |->
        IF n \in DOMAIN default THEN default[n] ELSE stored[n]]

\* lines 285-287: setdefault of every nested default key
MergeDefaults(stored, default) ==
    [n \in DOMAIN stored \cup DOMAIN default |->
        IF n \in DOMAIN stored THEN stored[n] ELSE default[n]]

\* lines 281-289: the document load_snapshot returns and writes back, for a
\* file that holds the JSON object `doc` whose sub-objects are objects
LoadSnapshot(doc) ==
    [k \in DOMAIN doc \cup DOMAIN BASE_SNAPSHOT |->
        IF k \notin DOMAIN doc THEN BASE_SNAPSHOT[k]
        ELSE IF k \in DictKeys /\ k \in DOMAIN BASE_SNAPSHOT
             THEN MergeDefaults(doc[k], BASE_SNAPSHOT[k])
             ELSE doc[k]]

----------------------------------------------------------------------------
(* The snapshot file as text.  Where the content of the file matters, the
   file is a record [kind, doc]: kind tells what the text is, and for a
   JSON object doc maps each key to its value.  A value is tagged: Obj(f)
   is a JSON object with the nested keys DOMAIN f, Other(n) is any value
   that is not an object (null, a number, a string, a list), named by the
   number n. *)

Obj(f) == [dict |-> TRUE, val |-> f]
Other(n) == [dict |-> FALSE, val |-> n]

None == 0
EmptyList == 0
EmptyDoc == [k \in {} |-> 0]

\* BASE_SNAPSHOT with every key it has in the source
BaseDocument ==
    [cached_records |-> Other(EmptyList),
     last_sync |-> Other(None),
     ai_fail_count |-> Other(0),
     ai_latency_totals |-> Obj([transcribe |-> 0, polish |-> 0]),
     ai_latency_counts |-> Obj([transcribe |-> 0, polish |-> 0]),
     last_payload |-> Obj(EmptyDoc),
     recent_payloads |-> Other(EmptyList),
     last_crm_status |-> Obj([state |-> None, timestamp |-> None,
                              response_code |-> None, error |-> None])]

\* texts that are no JSON object: the file is absent, holds only white
\* space, holds a cut-off or otherwise invalid JSON text, or holds a valid
\* JSON text whose top-level value is a list, a number, a string or null
TextKinds ==
    {"missing", "empty", "truncated", "invalid", "array", "number", "string",
     "null"}

ObjectFile(doc) == [kind |-> "object", doc |-> doc]
TextFile(kind) == [kind |-> kind, doc |-> EmptyDoc]

\* lines 274-282: a missing file is seeded with BASE_SNAPSHOT and read
\* back; an empty text and a text json.loads rejects give {}
ParsesToObject(file) ==
    file.kind \in {"missing", "empty", "truncated", "invalid", "object"}

Parsed(file) ==
    CASE file.kind = "missing" -> BaseDocument
      [] file.kind = "object"  -> file.doc
      [] OTHER                 -> EmptyDoc

\* lines 283-288 on a value that is no dictionary: `key not in snap` or
\* `snap[key] = ...` raises TypeError, which load_snapshot does not catch
LoadRaises(file) == ~ParsesToObject(file)

\* lines 283-288 on a dictionary
LoadDocument(doc) ==
    [k \in DOMAIN doc \cup DOMAIN BaseDocument |->
        IF k \notin DOMAIN doc THEN BaseDocument[k]
        ELSE IF k \in DOMAIN BaseDocument /\ BaseDocument[k].dict /\ doc[k].dict
             THEN Obj(MergeDefaults(doc[k].val, BaseDocument[k].val))
             ELSE doc[k]]

\* (mutation of UpdateValue: an object update replaces the stored object)
UpdateValueReplaced(stored, value) == value

\* lines 297-300: the value save_snapshot stores under a key of the update;
\* `stored` is snap.get(key), Other(None) for a key snap lacks
UpdateValue(stored, value) ==
    IF value.dict /\ stored.dict
    THEN Obj([n \in DOMAIN stored.val \cup DOMAIN value.val |->
                 IF n \in DOMAIN value.val THEN value.val[n] ELSE stored.val[n]])
    ELSE value

\* lines 294-301 once load_snapshot has returned `snap`
SaveDocument(snap, update, now) ==
    [k \in DOMAIN snap \cup DOMAIN update \cup {"last_sync"} |->
        IF k = "last_sync" THEN Other(now)
        ELSE IF k \in DOMAIN update
             THEN UpdateValue(IF k \in DOMAIN snap THEN snap[k] ELSE Other(None),
                              update[k])
             ELSE snap[k]]

----------------------------------------------------------------------------
(* Session flags and the Ops Log *)

InitSession ==
    [last_crm_payload |-> NoPayload, last_crm_status |-> NoStatus,
     crm_retry_available |-> FALSE, retry_in_progress |-> FALSE,
     warning_logged |-> FALSE, warning_pending |-> FALSE]

OpsRecord(label, p, status, queue) ==
    [status |-> label, uid |-> p.uid, queue_len |-> Len(queue),
     crm_response_code |-> status.response_code,
     crm_error |-> status.error, crm_attempts |-> RetryAttempts(p)]

\* (mutation of RecordSession: a failed snapshot write still replaces the
\* payload and status held in memory)
RecordSessionOverwrites(sess, p, result, label, will_retry, snapshot_ok) ==
    LET status_meta == BuildStatusMeta(label, result)
        s1 == IF snapshot_ok
              THEN [sess EXCEPT !.warning_logged = FALSE,
                                !.warning_pending = FALSE,
                                !.last_crm_payload = Serialized(p, label),
                                !.last_crm_status = status_meta]
              ELSE [sess EXCEPT !.warning_logged = TRUE,
                                !.warning_pending = TRUE,
                                !.last_crm_payload = Serialized(p, label),
                                !.last_crm_status = status_meta]
        s2 == [s1 EXCEPT !.crm_retry_available = label \in {"cached", "failed"}]
    IN  IF will_retry THEN s2 ELSE [s2 EXCEPT !.retry_in_progress = FALSE]

\* (mutation of RecordSession: the retry is offered after every outcome
\* but `synced`)
RecordSessionRetryOffered(sess, p, result, label, will_retry, snapshot_ok) ==
    LET status_meta == BuildStatusMeta(label, result)
        s1 == IF snapshot_ok
              THEN [sess EXCEPT !.warning_logged = FALSE,
                                !.warning_pending = FALSE,
                                !.last_crm_payload = Serialized(p, label),
                                !.last_crm_status = status_meta]
              ELSE [sess EXCEPT !.warning_logged = TRUE,
                                !.warning_pending = TRUE]
        s2 == [s1 EXCEPT !.crm_retry_available = label # "synced"]
    IN  IF will_retry THEN s2 ELSE [s2 EXCEPT !.retry_in_progress = FALSE]

\* _record_crm_delivery, session part
RecordSession(sess, p, result, label, will_retry, snapshot_ok) ==
    LET status_meta == BuildStatusMeta(label, result)
        s1 == IF snapshot_ok
              THEN [sess EXCEPT !.warning_logged = FALSE,
                                !.warning_pending = FALSE,
                                !.last_crm_payload = Serialized(p, label),
                                !.last_crm_status = status_meta]
              ELSE [sess EXCEPT !.warning_logged = TRUE,
                                !.warning_pending = TRUE]
        s2 == [s1 EXCEPT !.crm_retry_available = label \in {"cached", "failed"}]
    IN  IF will_retry THEN s2 ELSE [s2 EXCEPT !.retry_in_progress = FALSE]

\* _append_crm_sample_entry lines 522-523: the Customer_ID of the row;
\* token is the uuid used when the payload has none of the three keys
RowId(p, token) ==
    IF p.pid # 0 THEN p.pid
    ELSE IF p.cust # 0 THEN p.cust
    ELSE IF p.ts # 0 THEN p.ts
    ELSE token

\* a row of the ledger: its Customer_ID and its Notes
Row(p, token) == [id |-> RowId(p, token), uid |-> p.uid]

\* lines 563-571: the index of the first row with that Customer_ID, 0 for
\* none
ExistingIndex(rows, id) ==
    IF \E i \in 1..Len(rows) : rows[i].id = id
    THEN CHOOSE i \in 1..Len(rows) :
             /\ rows[i].id = id
             /\ \A j \in 1..(i - 1) : rows[j].id # id
    ELSE 0

\* _append_crm_sample_entry: replace the row in place or append it
AppendCrmSampleEntry(rows, p, token) ==
    LET row == Row(p, token)
        existing_index == ExistingIndex(rows, row.id)
    IN  IF existing_index # 0
        THEN [rows EXCEPT ![existing_index] = row]
        ELSE Append(rows, row)

\* _record_crm_delivery: snapshot, session and Ops Log.  snapshot_ok and
\* log_ok say whether the two file writes succeed; `queue` is the pending
\* queue at the time of the call.  A failed Ops Log write raises after the
\* session and the snapshot were updated.
RecordCrmDelivery(p, result, label, will_retry, snapshot_ok, log_ok, queue) ==
    LET status_meta == BuildStatusMeta(label, result)
    IN  /\ snapshot' = IF snapshot_ok
                       THEN UpdateSnapshotWithPayload(snapshot,
                                PayloadForSnapshot(p), status_meta)
                       ELSE snapshot
        /\ session' = RecordSession(session, p, result, label, will_retry,
                                    snapshot_ok)
        /\ crm_sample' = IF label = "synced"
                         THEN AppendCrmSampleEntry(crm_sample,
                                  PayloadForSnapshot(p), UuidBase + uuid_count + 1)
                         ELSE crm_sample
        /\ ops_log' = IF log_ok
                      THEN Append(ops_log, OpsRecord(label, p, status_meta, queue))
                      ELSE ops_log

\* (mutation of CachedCopy: the last error is not kept)
CachedCopyNoError(p) == [p EXCEPT !.cached = TRUE, !.err = 0]

\* the copy _cache_payload appends to the offline cache
CachedCopy(p) == [p EXCEPT !.cached = TRUE]

\* _remove_offline_cached_entry: the filtered list
SharesId(entry, p) ==
    \/ p.pid # 0 /\ (p.pid = entry.pid \/ p.pid = entry.ts)
    \/ p.ts # 0 /\ (p.ts = entry.pid \/ p.ts = entry.ts)

\* (mutation of RemoveOfflineCachedEntry: nothing is removed)
RemoveNothing(cache, p) == cache

RemoveOfflineCachedEntry(cache, p) ==
    IF cache = <<>> \/ (p.pid = 0 /\ p.ts = 0) THEN cache
    ELSE SelectSeq(cache, LAMBDA entry : ~SharesId(entry, p))

----------------------------------------------------------------------------
(* Initial state: a freshly started process with a fresh snapshot file *)

\* list: the list object the loop iterates; aliased: whether it still is
\* session["offline_cache"]; delivered / failed: history of this flush
NoFlush ==
    [list |-> <<>>, aliased |-> FALSE, idx |-> 1, remaining |-> <<>>,
     flushed |-> 0, cur |-> NoPayload, returned |-> -1, delivered |-> {},
     failed |-> {}]

\* snap_faults: the faults that were snapshot writes; load_errors: calls of
\* load_snapshot / save_snapshot that raised; update: the argument of the
\* last save_snapshot call; retried: the note of the payload the last
\* manual retry re-enqueued
InitHist ==
    [enq |-> 0, toggles |-> 0, flushes |-> 0, manual |-> 0, faults |-> 0,
     snap_faults |-> 0, restarts |-> 0, loads |-> 0, load_errors |-> 0,
     saves |-> 0, update |-> <<>>, retried |-> 0]

\* no request is in flight
NoRequests == [worker |-> NoPayload, flush |-> NoPayload]

\* a thread's call on the snapshot file: the file operations it has still
\* to make, the document it holds (`snap`), the update it was given, and
\* the history list it read for the update
Threads == {"ui", "worker"}

NoCall == [ops |-> <<>>, snap |-> EmptyDoc, update |-> EmptyDoc, history |-> 0]

\* no call is running; recorded, saved and loads count the calls begun,
\* overlapped tells whether a call began while another was running
NoFileIo ==
    [threads |-> [t \in Threads |-> NoCall], recorded |-> 0, saved |-> 0,
     loads |-> 0, overlapped |-> FALSE]

InitMemory ==
    /\ crm_queue = <<>>
    /\ offline_cache = <<>>
    /\ offline = FALSE
    /\ session = InitSession
    /\ worker_threads = {}
    /\ start_pc = [s \in Sessions |-> "idle"]
    /\ worker_started = [s \in Sessions |-> FALSE]
    /\ wpc = "idle"
    /\ wcur = NoPayload
    /\ fpc = "idle"
    /\ flush = NoFlush
    /\ in_flight = NoRequests
    /\ file_io = NoFileIo

\* a scenario: the bounds of a run and the outcomes its delivery client has
Scenario(enq, clk, toggles, flushes, manual, faults, restarts, client, ss) ==
    [sessions |-> ss, max_enq |-> enq, max_clock |-> clk, max_toggles |-> toggles,
     max_flushes |-> flushes, max_manual |-> manual, max_faults |-> faults,
     max_restarts |-> restarts, client |-> client]

\* data/crm_sample.csv as shipped: baseline rows with distinct Customer_IDs
SampleLedger == <<[id |-> BASELINE_CUSTOMER, uid |-> 0]>>

InitWith(sc, config_values) ==
    /\ InitMemory
    /\ scenario = sc
    /\ snapshot = BASE_SNAPSHOT
    /\ ops_log = <<>>
    /\ env_max_retries \in config_values
    /\ clock = 1
    /\ uuid_count = 0
    /\ delivered = {}
    /\ hist = InitHist
    /\ calls = [u \in 1..sc.max_enq |-> 0]
    /\ first_id = [u \in 1..sc.max_enq |-> 0]
    /\ crm_sample = SampleLedger

FullScenario ==
    Scenario(MaxEnqueue, MaxClock, MaxToggles, MaxFlushes, MaxManualRetries,
             MaxFaults, MaxRestarts, Outcomes, Sessions)

Init == InitWith(FullScenario, ConfigValues)

\* whether this step may inject a file-write failure
MayFail(snapshot_ok, log_ok) ==
    (snapshot_ok /\ log_ok) \/ hist.faults < scenario.max_faults

CountFault(h, snapshot_ok, log_ok) ==
    IF snapshot_ok /\ log_ok THEN h
    ELSE [h EXCEPT !.faults = @ + 1,
                   !.snap_faults = IF snapshot_ok THEN @ ELSE @ + 1]

UiIdle == fpc = "idle"

----------------------------------------------------------------------------
(* Producer: the UI thread *)

\* (mutation of Enqueued: the payload is not appended)
EnqueuedNowhere(queue, p) == queue

\* (mutation of Enqueued: insert at the head)
EnqueuedAtHead(queue, p) == <<p>> \o queue

\* enqueue_crm_push: append at the tail
Enqueued(queue, p) == Append(queue, p)

\* enqueue_crm_push called directly with a payload that has no `ts`
EnqueueCrmPush ==
    /\ UiIdle
    /\ hist.enq < scenario.max_enq
    /\ crm_queue' = Enqueued(crm_queue, NewPayload(hist.enq + 1, 0))
    /\ hist' = [hist EXCEPT !.enq = @ + 1]
    /\ UNCHANGED <<offline_cache, offline, session, snapshot, ops_log,
                   env_max_retries, clock, uuid_count, worker_threads,
                   start_pc, worker_started, wpc, wcur, fpc, flush,
                   delivered, scenario, calls, first_id, in_flight, crm_sample,
                   file_io>>

\* _save_and_queue_crm_payload: the payload carries the clock second as ts
SaveAndQueueCrmPayload ==
    /\ UiIdle
    /\ hist.enq < scenario.max_enq
    /\ LET payload == SavedPayload(hist.enq + 1, clock)
       IN  /\ session' = [session EXCEPT
                  !.last_crm_payload = payload,
                  !.last_crm_status = [NoStatus EXCEPT !.state = "queued"]]
           /\ crm_queue' = Enqueued(crm_queue, payload)
    /\ hist' = [hist EXCEPT !.enq = @ + 1]
    /\ UNCHANGED <<offline_cache, offline, snapshot, ops_log,
                   env_max_retries, clock, uuid_count, worker_threads,
                   start_pc, worker_started, wpc, wcur, fpc, flush,
                   delivered, scenario, calls, first_id, in_flight, crm_sample,
                   file_io>>

\* datetime.now() moves on
Tick ==
    /\ clock < scenario.max_clock
    /\ clock' = clock + 1
    /\ UNCHANGED <<crm_queue, offline_cache, offline, session, snapshot,
                   ops_log, env_max_retries, uuid_count, worker_threads,
                   start_pc, worker_started, wpc, wcur, fpc, flush,
                   delivered, hist, scenario, calls, first_id, in_flight, crm_sample,
                   file_io>>

\* the "Offline Mode" toggle
ToggleOffline ==
    /\ UiIdle
    /\ hist.toggles < scenario.max_toggles
    /\ offline' = ~offline
    /\ hist' = [hist EXCEPT !.toggles = @ + 1]
    /\ UNCHANGED <<crm_queue, offline_cache, session, snapshot, ops_log,
                   env_max_retries, clock, uuid_count, worker_threads,
                   start_pc, worker_started, wpc, wcur, fpc, flush,
                   delivered, scenario, calls, first_id, in_flight, crm_sample,
                   file_io>>

\* _retry_last_payload: the payload the callback re-enqueues
RetryPayload(p) ==
    [p EXCEPT !.crm_status = "none", !.cached = FALSE, !.err = 0, !.att = 0]

\* _retry_last_payload: the offline cache it leaves
RetryCache(cache, p) ==
    IF p.pid # 0 THEN SelectSeq(cache, LAMBDA entry : entry.pid # p.pid)
    ELSE cache

\* the "Retry CRM Push" button, enabled when a retry is available, none is
\* in progress and a last payload exists
ManualRetry ==
    /\ UiIdle
    /\ hist.manual < scenario.max_manual
    /\ session.crm_retry_available
    /\ ~session.retry_in_progress
    /\ session.last_crm_payload # NoPayload
    /\ offline_cache' = RetryCache(offline_cache, session.last_crm_payload)
    /\ crm_queue' = Enqueued(crm_queue, RetryPayload(session.last_crm_payload))
    /\ session' = [session EXCEPT !.retry_in_progress = TRUE,
                                  !.crm_retry_available = FALSE]
    /\ hist' = [hist EXCEPT !.manual = @ + 1,
                            !.retried = session.last_crm_payload.uid]
    /\ UNCHANGED <<offline, snapshot, ops_log, env_max_retries, clock,
                   uuid_count, worker_threads, start_pc, worker_started,
                   wpc, wcur, fpc, flush, delivered, scenario, calls, first_id, in_flight, crm_sample,
                   file_io>>

\* a run of the script: the toast for a pending snapshot warning is shown
\* and the pending flag is reset (app.py lines 920-926)
ShowSnapshotWarning ==
    /\ UiIdle
    /\ session.warning_pending
    /\ session' = [session EXCEPT !.warning_pending = FALSE]
    /\ UNCHANGED <<crm_queue, offline_cache, offline, snapshot, ops_log,
                   env_max_retries, clock, uuid_count, worker_threads,
                   start_pc, worker_started, wpc, wcur, fpc, flush,
                   delivered, hist, scenario, calls, first_id, in_flight, crm_sample,
                   file_io>>

----------------------------------------------------------------------------
(* Delivery worker: the thread running _worker_loop for session Ui *)

WorkerRuns == Ui \in worker_threads

\* an exception leaves _worker_loop: the thread ends
WorkerRaised ==
    /\ wpc' = "dead"
    /\ wcur' = NoPayload
    /\ worker_threads' = worker_threads \ {Ui}

\* session["offline_cache"].append(cached); a flush that is iterating the
\* same list object sees the new entry
CacheAppended(c) ==
    /\ offline_cache' = Append(offline_cache, c)
    /\ flush' = IF fpc # "idle" /\ flush.aliased
                THEN [flush EXCEPT !.list = Append(@, c)]
                ELSE flush

\* the queue head the worker takes
QueueHead(queue) == Head(queue)

QueueRest(queue) == Tail(queue)

\* _worker_loop: pop(0)
WorkerPop ==
    /\ WorkerRuns
    /\ wpc = "idle"
    /\ crm_queue # <<>>
    /\ wcur' = QueueHead(crm_queue)
    /\ crm_queue' = QueueRest(crm_queue)
    /\ wpc' = "popped"
    /\ UNCHANGED <<offline_cache, offline, session, snapshot, ops_log,
                   env_max_retries, clock, uuid_count, worker_threads,
                   start_pc, worker_started, fpc, flush, delivered, hist,
                   scenario, calls, first_id, in_flight, crm_sample, file_io>>

\* (mutation of IsOffline: the flag is not consulted)
IsOfflineIgnored(offline_arg, offline_flag) == FALSE

\* line 598: the flag _worker_loop passed in, or the session's flag
IsOffline(offline_arg, offline_flag) == offline_arg \/ offline_flag

\* send_to_crm lines 318-322: the JSON body posted to the endpoint, a deep
\* copy of the payload without the keys that start with `_crm_`
\* (_crm_payload_id, _crm_retry_attempts, _crm_last_error) and without
\* crm_status; `ts`, `note` and `_offline_cached` stay
DeliveryBody(p) ==
    [p EXCEPT !.pid = 0, !.att = -1, !.err = 0, !.crm_status = "none"]

\* _process_payload up to the call of the delivery client: the offline
\* branch caches the payload, the online branch starts the attempt
WorkerProcess ==
    /\ WorkerRuns
    /\ wpc = "popped"
    /\ LET generated == ExistingId(wcur) = 0
           payload_copy == GeneratePayloadId(wcur, UuidBase + uuid_count + 1)
           retry_attempts == RetryAttempts(payload_copy)
       IN  /\ uuid_count' = IF generated THEN uuid_count + 1 ELSE uuid_count
           /\ first_id' = IF first_id[wcur.uid] = 0
                          THEN [first_id EXCEPT ![wcur.uid] =
                                    ExistingId(payload_copy)]
                          ELSE first_id
           /\ IF ConfigRaises
              THEN /\ WorkerRaised
                   /\ UNCHANGED <<offline_cache, flush, session, snapshot,
                                  ops_log, hist, calls, in_flight,
                                  crm_sample>>
              ELSE IF IsOffline(offline, offline)
              THEN \E snapshot_ok, log_ok \in BOOLEAN :
                   LET cached == CachedCopy([payload_copy EXCEPT
                                                !.att = retry_attempts])
                   IN  /\ MayFail(snapshot_ok, log_ok)
                       /\ CacheAppended(cached)
                       /\ RecordCrmDelivery(cached, ResultOf("cached"),
                              "cached", FALSE, snapshot_ok, log_ok, crm_queue)
                       /\ hist' = CountFault(hist, snapshot_ok, log_ok)
                       /\ IF log_ok
                          THEN /\ wpc' = "idle"
                               /\ wcur' = NoPayload
                               /\ UNCHANGED worker_threads
                          ELSE WorkerRaised
                       /\ UNCHANGED <<calls, in_flight>>
              ELSE /\ wpc' = "sending"
                   /\ wcur' = payload_copy
                   /\ in_flight' = [in_flight EXCEPT
                                        !.worker = DeliveryBody(payload_copy)]
                   /\ calls' = [calls EXCEPT ![payload_copy.uid] = @ + 1]
                   /\ UNCHANGED <<offline_cache, flush, session, snapshot,
                                  ops_log, hist, worker_threads, crm_sample>>
    /\ UNCHANGED <<crm_queue, offline, env_max_retries, clock, start_pc,
                   worker_started, fpc, delivered, scenario, file_io>>

\* the payload after a successful attempt
Synced(p) == [p EXCEPT !.att = -1, !.err = 0]

\* (mutation of Failed: the attempt counter is not incremented)
FailedKeepsCount(p, result) ==
    [p EXCEPT !.att = RetryAttempts(p), !.err = result.error]

\* the payload after a failed attempt
Failed(p, result) ==
    [p EXCEPT !.att = RetryAttempts(p) + 1, !.err = result.error]

\* (mutation of WillRetry: one attempt too many)
WillRetryOffByOne(retry_attempts, max_retries, offline_now) ==
    retry_attempts <= max_retries /\ ~offline_now

\* line 616: requeue the payload rather than cache it
WillRetry(retry_attempts, max_retries, offline_now) ==
    retry_attempts < max_retries /\ ~offline_now

\* _process_payload from the return of the delivery client on
WorkerSendDone ==
    /\ WorkerRuns
    /\ wpc = "sending"
    /\ \E outcome \in scenario.client, snapshot_ok, log_ok \in BOOLEAN :
       LET result == ResultOf(outcome)
       IN  /\ MayFail(snapshot_ok, log_ok)
           /\ hist' = CountFault(hist, snapshot_ok, log_ok)
           /\ in_flight' = [in_flight EXCEPT !.worker = NoPayload]
           /\ IF log_ok
              THEN /\ wpc' = "idle"
                   /\ wcur' = NoPayload
                   /\ UNCHANGED worker_threads
              ELSE WorkerRaised
           /\ IF result.status = "ok"
              THEN /\ delivered' = delivered \cup {wcur.uid}
                   /\ RecordCrmDelivery(Synced(wcur), result, "synced", FALSE,
                                        snapshot_ok, log_ok, crm_queue)
                   /\ IF log_ok
                      THEN /\ offline_cache' =
                                 RemoveOfflineCachedEntry(offline_cache, wcur)
                           /\ flush' = IF offline_cache # <<>>
                                       THEN [flush EXCEPT !.aliased = FALSE]
                                       ELSE flush
                      ELSE UNCHANGED <<offline_cache, flush>>
                   /\ UNCHANGED crm_queue
              ELSE LET failed == Failed(wcur, result)
                   IN  /\ UNCHANGED delivered
                       /\ IF WillRetry(failed.att, MaxRetries, offline)
                          THEN /\ crm_queue' = Append(crm_queue, failed)
                               /\ RecordCrmDelivery(failed, result, "retrying",
                                      TRUE, snapshot_ok, log_ok, crm_queue')
                               /\ UNCHANGED <<offline_cache, flush>>
                          ELSE /\ CacheAppended(CachedCopy(failed))
                               /\ RecordCrmDelivery(CachedCopy(failed), result,
                                      "failed", FALSE, snapshot_ok, log_ok,
                                      crm_queue)
                               /\ UNCHANGED crm_queue
    /\ UNCHANGED <<offline, env_max_retries, clock, uuid_count, start_pc,
                   worker_started, fpc, scenario, calls, first_id, file_io>>

----------------------------------------------------------------------------
(* flush_offline_cache, run by the UI thread *)

\* an exception leaves flush_offline_cache: the final assignment of
\* `remaining` to the offline cache is not reached
FlushRaised ==
    /\ fpc' = "idle"
    /\ flush' = [flush EXCEPT !.cur = NoPayload]

\* the call: returns 0 at once in offline mode, else starts the loop over
\* the list object session["offline_cache"]
FlushStart ==
    /\ UiIdle
    /\ hist.flushes < scenario.max_flushes
    /\ hist' = [hist EXCEPT !.flushes = @ + 1]
    /\ IF offline
       THEN /\ flush' = [NoFlush EXCEPT !.returned = 0]
            /\ fpc' = "idle"
       ELSE /\ flush' = [NoFlush EXCEPT !.list = offline_cache,
                                        !.aliased = TRUE]
            /\ fpc' = "iter"
    /\ UNCHANGED <<crm_queue, offline_cache, offline, session, snapshot,
                   ops_log, env_max_retries, clock, uuid_count,
                   worker_threads, start_pc, worker_started, wpc, wcur,
                   delivered, scenario, calls, first_id, in_flight, crm_sample,
                   file_io>>

\* the entries flush writes back
Remaining(remaining, p, max_retries) ==
    IF p.att >= max_retries THEN remaining ELSE Append(remaining, p)

\* the payload after a successful flush attempt
Flushed(p) == [p EXCEPT !.att = -1, !.err = 0, !.cached = FALSE]

\* loop head: take the next record and call the delivery client, or leave
\* the loop, assign `remaining` and log `flushed`
FlushNext ==
    /\ fpc = "iter"
    /\ IF flush.idx <= Len(flush.list)
       THEN /\ IF ConfigRaises
               THEN FlushRaised /\ UNCHANGED in_flight
               ELSE /\ fpc' = "sending"
                    /\ flush' = [flush EXCEPT !.cur = flush.list[flush.idx],
                                              !.idx = @ + 1]
                    /\ in_flight' = [in_flight EXCEPT
                           !.flush = DeliveryBody(flush.list[flush.idx])]
            /\ UNCHANGED <<offline_cache, ops_log, hist>>
       ELSE \E log_ok \in BOOLEAN :
            /\ MayFail(TRUE, log_ok)
            /\ flush.flushed = 0 => log_ok
            /\ offline_cache' = flush.remaining
            /\ ops_log' = IF flush.flushed > 0 /\ log_ok
                          THEN Append(ops_log, OpsRecord("flushed", NoPayload,
                                                         NoStatus, crm_queue))
                          ELSE ops_log
            /\ hist' = CountFault(hist, TRUE, log_ok)
            /\ fpc' = "idle"
            /\ flush' = [flush EXCEPT
                            !.returned = IF log_ok THEN flush.flushed ELSE -1,
                            !.aliased = FALSE]
            /\ UNCHANGED in_flight
    /\ UNCHANGED <<crm_queue, offline, session, snapshot, env_max_retries,
                   clock, uuid_count, worker_threads, start_pc,
                   worker_started, wpc, wcur, delivered, scenario, calls,
                   first_id, crm_sample, file_io>>

\* loop body from the return of the delivery client on
FlushSendDone ==
    /\ fpc = "sending"
    /\ \E outcome \in scenario.client, snapshot_ok, log_ok \in BOOLEAN :
       LET result == ResultOf(outcome)
           failed == Failed(flush.cur, result)
       IN  /\ MayFail(snapshot_ok, log_ok)
           /\ hist' = CountFault(hist, snapshot_ok, log_ok)
           /\ in_flight' = [in_flight EXCEPT !.flush = NoPayload]
           /\ IF result.status = "ok"
              THEN /\ delivered' = delivered \cup {flush.cur.uid}
                   /\ RecordCrmDelivery(Flushed(flush.cur), result, "synced",
                                        FALSE, snapshot_ok, log_ok, crm_queue)
                   /\ IF log_ok
                      THEN /\ fpc' = "iter"
                           /\ flush' = [flush EXCEPT
                                  !.flushed = @ + 1, !.cur = NoPayload,
                                  !.delivered = @ \cup {flush.cur}]
                      ELSE FlushRaised
              ELSE /\ UNCHANGED delivered
                   /\ RecordCrmDelivery(failed, result, "failed", FALSE,
                                        snapshot_ok, log_ok, crm_queue)
                   /\ IF log_ok
                      THEN /\ fpc' = "iter"
                           /\ flush' = [flush EXCEPT
                                  !.remaining = Remaining(@, failed, MaxRetries),
                                  !.cur = NoPayload,
                                  !.failed = @ \cup {failed}]
                      ELSE FlushRaised
    /\ UNCHANGED <<crm_queue, offline_cache, offline, env_max_retries, clock,
                   uuid_count, worker_threads, start_pc, worker_started,
                   wpc, wcur, scenario, calls, first_id, file_io>>

----------------------------------------------------------------------------
(* start_crm_worker, called by the script thread of each session *)

\* line 637-639: read the thread registry; return when a worker is listed
StartCheck(s) ==
    /\ ~worker_started[s]
    /\ start_pc[s] = "idle"
    /\ IF worker_threads # {}
       THEN /\ worker_started' = [worker_started EXCEPT ![s] = TRUE]
            /\ UNCHANGED start_pc
       ELSE /\ start_pc' = [start_pc EXCEPT ![s] = "spawn"]
            /\ UNCHANGED worker_started
    /\ UNCHANGED <<crm_queue, offline_cache, offline, session, snapshot,
                   ops_log, env_max_retries, clock, uuid_count,
                   worker_threads, wpc, wcur, fpc, flush, delivered, hist,
                   scenario, calls, first_id, in_flight, crm_sample, file_io>>

\* line 640-647: create and start the thread
StartSpawn(s) ==
    /\ start_pc[s] = "spawn"
    /\ worker_threads' = worker_threads \cup {s}
    /\ start_pc' = [start_pc EXCEPT ![s] = "idle"]
    /\ worker_started' = [worker_started EXCEPT ![s] = TRUE]
    /\ UNCHANGED <<crm_queue, offline_cache, offline, session, snapshot,
                   ops_log, env_max_retries, clock, uuid_count, wpc, wcur,
                   fpc, flush, delivered, hist, scenario, calls, first_id, in_flight, crm_sample,
                   file_io>>

----------------------------------------------------------------------------
(* Process restart: the memory is re-initialised, the files are kept *)

\* init_state's value for the offline cache of the new process
RestoredCache(snap) == <<>>

Restart ==
    /\ hist.restarts < scenario.max_restarts
    /\ crm_queue' = <<>>
    /\ offline_cache' = RestoredCache(snapshot)
    /\ offline' = FALSE
    /\ session' = InitSession
    /\ worker_threads' = {}
    /\ start_pc' = [s \in Sessions |-> "idle"]
    /\ worker_started' = [s \in Sessions |-> FALSE]
    /\ wpc' = "idle"
    /\ wcur' = NoPayload
    /\ fpc' = "idle"
    /\ flush' = NoFlush
    /\ in_flight' = NoRequests
    /\ hist' = [hist EXCEPT !.restarts = @ + 1]
    /\ UNCHANGED <<snapshot, ops_log, env_max_retries, clock, uuid_count,
                   delivered, scenario, calls, first_id, crm_sample, file_io>>

----------------------------------------------------------------------------
(* load_snapshot, called by the script thread on every run *)

LoadSnapshotCall ==
    /\ hist.loads < MaxLoads
    /\ snapshot' = LoadSnapshot(snapshot)
    /\ hist' = [hist EXCEPT !.loads = @ + 1]
    /\ UNCHANGED <<crm_queue, offline_cache, offline, session, ops_log,
                   env_max_retries, clock, uuid_count, worker_threads,
                   start_pc, worker_started, wpc, wcur, fpc, flush,
                   delivered, scenario, calls, first_id, in_flight, crm_sample,
                   file_io>>

----------------------------------------------------------------------------
(* load_snapshot and save_snapshot on a file of any content *)

\* load_snapshot: returns and writes back the migrated document, or raises
\* and leaves the file as it is
LoadFile ==
    /\ hist.loads < MaxLoads
    /\ IF LoadRaises(snapshot)
       THEN /\ snapshot' = snapshot
            /\ hist' = [hist EXCEPT !.loads = @ + 1, !.load_errors = @ + 1]
       ELSE /\ snapshot' = ObjectFile(LoadDocument(Parsed(snapshot)))
            /\ hist' = [hist EXCEPT !.loads = @ + 1]
    /\ UNCHANGED <<crm_queue, offline_cache, offline, session, ops_log,
                   env_max_retries, clock, uuid_count, worker_threads,
                   start_pc, worker_started, wpc, wcur, fpc, flush,
                   delivered, scenario, calls, first_id, in_flight, crm_sample,
                   file_io>>

\* the values an update may hold under a key
UpdateValues ==
    {Obj("state" :> 9), Obj("state" :> 9 @@ "extra" :> 8), Other(7)}

UpdateKeys == {"last_crm_status", "recent_payloads", "legacy", "last_sync"}

\* save_snapshot's argument: None / {}, a dictionary with one key, or one
\* with the two keys _update_snapshot_with_payload passes
Updates ==
    UNION {[ks -> UpdateValues] :
              ks \in {{}, {"last_crm_status", "recent_payloads"}}
                         \cup {{k} : k \in UpdateKeys}}

\* save_snapshot(update): load_snapshot, the merge, last_sync, the write
SaveSnapshotCall ==
    /\ hist.saves < MaxSaves
    /\ \E update \in Updates :
       IF LoadRaises(snapshot)
       THEN /\ snapshot' = snapshot
            /\ hist' = [hist EXCEPT !.saves = @ + 1, !.load_errors = @ + 1,
                                    !.update = update]
       ELSE /\ snapshot' = ObjectFile(SaveDocument(
                               LoadDocument(Parsed(snapshot)), update, clock))
            /\ hist' = [hist EXCEPT !.saves = @ + 1, !.update = update]
    /\ UNCHANGED <<crm_queue, offline_cache, offline, session, ops_log,
                   env_max_retries, clock, uuid_count, worker_threads,
                   start_pc, worker_started, wpc, wcur, fpc, flush,
                   delivered, scenario, calls, first_id, in_flight, crm_sample,
                   file_io>>

----------------------------------------------------------------------------
(* The snapshot file shared by the two threads.  No lock guards the file:
   a call is a sequence of file operations, and the operations of the UI
   thread and of the worker thread interleave.  Path.write_text opens the
   file for writing, which empties it, and then writes the text. *)

\* load_snapshot: read_text and the defaults, then write_text
LoadOps == <<"read", "truncate", "write">>

\* save_snapshot: load_snapshot, the merge of the update, write_text
SaveOps == LoadOps \o <<"merge", "truncate", "write">>

\* _update_snapshot_with_payload: load_snapshot for the history, then
\* save_snapshot
UpdateOps == <<"read_history", "truncate", "write">> \o SaveOps

\* a list of payload numbers as a decimal number, the newest payload the
\* lowest digit: [serialized] + list(history), cut to RECENT_PAYLOAD_LIMIT
Prepended(k, history) == (k + 10 * history) % 100000

\* lines 143-145: the stored history, [] when it is not a list
HistoryOf(snap) ==
    IF snap["recent_payloads"].dict THEN EmptyList
    ELSE snap["recent_payloads"].val

\* the update of the k-th recorded outcome (lines 150-161)
WorkerUpdate(k, history) ==
    [last_payload |-> Obj("note" :> k),
     recent_payloads |-> Other(Prepended(k, history)),
     last_crm_status |-> Obj([state |-> k, timestamp |-> k,
                              response_code |-> 200, error |-> None])]

\* the update of the j-th save of _save_and_queue_crm_payload
TelemetryUpdate(j) ==
    [ai_fail_count |-> Other(j),
     ai_latency_totals |-> Obj([transcribe |-> j, polish |-> j]),
     ai_latency_counts |-> Obj([transcribe |-> j, polish |-> j]),
     final_transcribe_stats |-> Obj("queue_depth" :> j)]

FileFrame ==
    UNCHANGED <<crm_queue, offline_cache, offline, session, ops_log,
                env_max_retries, clock, uuid_count, worker_threads,
                start_pc, worker_started, wpc, wcur, fpc, flush, delivered,
                hist, scenario, calls, first_id, in_flight, crm_sample>>

CallIdle(t) == file_io.threads[t].ops = <<>>

NextOp(t) == Head(file_io.threads[t].ops)

\* the script runs and calls load_snapshot (app.py line 939)
UiLoadSnapshot ==
    /\ CallIdle("ui")
    /\ file_io.loads < FileMaxLoads
    /\ file_io' = [file_io EXCEPT
           !.threads["ui"] = [NoCall EXCEPT !.ops = LoadOps],
           !.loads = @ + 1,
           !.overlapped = @ \/ ~CallIdle("worker")]
    /\ UNCHANGED snapshot
    /\ FileFrame

\* _save_and_queue_crm_payload calls save_snapshot with the telemetry
UiSaveTelemetry ==
    /\ CallIdle("ui")
    /\ file_io.saved < FileMaxSaves
    /\ file_io' = [file_io EXCEPT
           !.threads["ui"] =
               [NoCall EXCEPT !.ops = SaveOps,
                              !.update = TelemetryUpdate(file_io.saved + 1)],
           !.saved = @ + 1,
           !.overlapped = @ \/ ~CallIdle("worker")]
    /\ UNCHANGED snapshot
    /\ FileFrame

\* _record_crm_delivery calls _update_snapshot_with_payload
WorkerUpdateSnapshot ==
    /\ CallIdle("worker")
    /\ file_io.recorded < FileMaxRecords
    /\ file_io' = [file_io EXCEPT
           !.threads["worker"] = [NoCall EXCEPT !.ops = UpdateOps],
           !.recorded = @ + 1,
           !.overlapped = @ \/ ~CallIdle("ui")]
    /\ UNCHANGED snapshot
    /\ FileFrame

\* lines 278-288: the text is read and parsed, the defaults are filled in
FileRead(t) ==
    /\ ~CallIdle(t)
    /\ NextOp(t) \in {"read", "read_history"}
    /\ LET loaded == LoadDocument(Parsed(snapshot))
       IN  file_io' = [file_io EXCEPT
               !.threads[t].ops = Tail(@),
               !.threads[t].snap = loaded,
               !.threads[t].history =
                   IF NextOp(t) = "read_history" THEN HistoryOf(loaded) ELSE @]
    /\ UNCHANGED snapshot
    /\ FileFrame

\* lines 295-301: the update is merged into the document the call holds
FileMerge(t) ==
    /\ ~CallIdle(t)
    /\ NextOp(t) = "merge"
    /\ LET call == file_io.threads[t]
           update == IF t = "worker"
                     THEN WorkerUpdate(file_io.recorded, call.history)
                     ELSE call.update
       IN  file_io' = [file_io EXCEPT
               !.threads[t].ops = Tail(@),
               !.threads[t].snap = SaveDocument(call.snap, update, clock)]
    /\ UNCHANGED snapshot
    /\ FileFrame

\* write_text opens the file: it is empty until the text is written
FileTruncate(t) ==
    /\ ~CallIdle(t)
    /\ NextOp(t) = "truncate"
    /\ snapshot' = TextFile("empty")
    /\ file_io' = [file_io EXCEPT !.threads[t].ops = Tail(@)]
    /\ FileFrame

\* write_text writes the document the call holds
FileWrite(t) ==
    /\ ~CallIdle(t)
    /\ NextOp(t) = "write"
    /\ snapshot' = ObjectFile(file_io.threads[t].snap)
    /\ file_io' = [file_io EXCEPT !.threads[t].ops = Tail(@)]
    /\ FileFrame

----------------------------------------------------------------------------
Next ==
    \/ EnqueueCrmPush
    \/ SaveAndQueueCrmPayload
    \/ Tick
    \/ ToggleOffline
    \/ ManualRetry
    \/ WorkerPop
    \/ WorkerProcess
    \/ WorkerSendDone
    \/ FlushStart
    \/ FlushNext
    \/ FlushSendDone
    \/ \E s \in scenario.sessions : StartCheck(s)
    \/ \E s \in scenario.sessions : StartSpawn(s)
    \/ Restart
    \/ LoadSnapshotCall
    \/ ShowSnapshotWarning

Spec == Init /\ [][Next]_vars

TypeOK ==
    /\ wpc \in {"idle", "popped", "sending", "dead"}
    /\ fpc \in {"idle", "iter", "sending"}
    /\ offline \in BOOLEAN
    /\ worker_threads \subseteq Sessions

----------------------------------------------------------------------------
(* Scenarios *)

\* the producer and the worker only: offline mode is never switched on
NextOnline ==
    \/ EnqueueCrmPush
    \/ SaveAndQueueCrmPayload
    \/ Tick
    \/ WorkerPop
    \/ WorkerProcess
    \/ WorkerSendDone
    \/ \E s \in scenario.sessions : StartCheck(s)
    \/ \E s \in scenario.sessions : StartSpawn(s)

OnlineScenario(enq, client) ==
    Scenario(enq, MaxClock, 0, 0, 0, 0, 0, client, {Ui})

\* a delivery client that always succeeds
InitOk == InitWith(OnlineScenario(OnlineMaxEnqueue, {"ok"}), 0..OnlineMaxRetries)
SpecOk == InitOk /\ [][NextOnline]_vars

\* a delivery client that always returns error
InitErr == InitWith(OnlineScenario(RetryMaxEnqueue, {"error"}), 0..OnlineMaxRetries)
SpecErr == InitErr /\ [][NextOnline]_vars

\* a delivery client that returns error or ok as it likes
InitMixed ==
    InitWith(OnlineScenario(RetryMaxEnqueue, {"ok", "error"}), 0..OnlineMaxRetries)
SpecMixed == InitMixed /\ [][NextOnline]_vars

\* producer, worker and the offline toggle
NextDelivery ==
    \/ EnqueueCrmPush
    \/ SaveAndQueueCrmPayload
    \/ Tick
    \/ ToggleOffline
    \/ WorkerPop
    \/ WorkerProcess
    \/ WorkerSendDone
    \/ \E s \in scenario.sessions : StartCheck(s)
    \/ \E s \in scenario.sessions : StartSpawn(s)

InitDelivery ==
    InitWith(Scenario(MaxEnqueue, MaxClock, MaxToggles, 0, 0, 0, 0, Outcomes,
                      Sessions), {1, 2})
SpecDelivery == InitDelivery /\ [][NextDelivery]_vars

\* ... and the operator's flush and manual retry
NextFlush ==
    \/ EnqueueCrmPush
    \/ SaveAndQueueCrmPayload
    \/ Tick
    \/ ToggleOffline
    \/ WorkerPop
    \/ WorkerProcess
    \/ WorkerSendDone
    \/ \E s \in scenario.sessions : StartCheck(s)
    \/ \E s \in scenario.sessions : StartSpawn(s)
    \/ ManualRetry
    \/ FlushStart
    \/ FlushNext
    \/ FlushSendDone

InitFlush ==
    InitWith(Scenario(MaxEnqueue, MaxClock, MaxToggles, MaxFlushes,
                      MaxManualRetries, 0, 0, {"ok", "error"},
                      {Ui}), {1, 2})
SpecFlush == InitFlush /\ [][NextFlush]_vars

\* the same moves with a worker that keeps running: the script thread calls
\* start_crm_worker on every run and the worker thread loops for ever
WorkerFairness ==
    /\ WF_vars(StartCheck(Ui))
    /\ WF_vars(StartSpawn(Ui))
    /\ WF_vars(WorkerPop)
    /\ WF_vars(WorkerProcess)
    /\ WF_vars(WorkerSendDone)

NextLive ==
    \/ EnqueueCrmPush
    \/ SaveAndQueueCrmPayload
    \/ ToggleOffline
    \/ ManualRetry
    \/ WorkerPop
    \/ WorkerProcess
    \/ WorkerSendDone
    \/ StartCheck(Ui)
    \/ StartSpawn(Ui)

InitLive ==
    InitWith(Scenario(SmallMaxEnqueue, 1, SmallMaxToggles, 0, MaxManualRetries,
                      0, 0, {"ok", "error"}, {Ui}), {1, 2})
SpecLive == InitLive /\ [][NextLive]_vars /\ WorkerFairness

\* the same moves with two payloads
InitRetry ==
    InitWith(Scenario(RetryMaxEnqueue, 1, SmallMaxToggles, 0, MaxManualRetries,
                      0, 0, {"ok", "error"}, {Ui}), {1, 2})
SpecRetry == InitRetry /\ [][NextLive]_vars /\ WorkerFairness

\* a small scenario within one clock second: producer, offline toggle,
\* worker and flush, with any outcome of the delivery client
NextBrief ==
    \/ EnqueueCrmPush
    \/ SaveAndQueueCrmPayload
    \/ ToggleOffline
    \/ WorkerPop
    \/ WorkerProcess
    \/ WorkerSendDone
    \/ StartCheck(Ui)
    \/ StartSpawn(Ui)
    \/ FlushStart
    \/ FlushNext
    \/ FlushSendDone

InitBrief ==
    InitWith(Scenario(SmallMaxEnqueue, 1, SmallMaxToggles, MaxFlushes, 0, 0, 0,
                      Outcomes, {Ui}), {1, 2})
SpecBrief == InitBrief /\ [][NextBrief]_vars

\* the small scenario with snapshot and Ops Log writes that may fail and a
\* script that re-runs
NextDegraded ==
    \/ EnqueueCrmPush
    \/ SaveAndQueueCrmPayload
    \/ ToggleOffline
    \/ ShowSnapshotWarning
    \/ WorkerPop
    \/ WorkerProcess
    \/ WorkerSendDone
    \/ StartCheck(Ui)
    \/ StartSpawn(Ui)

InitDegraded ==
    InitWith(Scenario(SmallMaxEnqueue, 1, SmallMaxToggles, 0, 0,
                      SmallMaxFaults, 0, {"ok", "error"}, {Ui}), {1, 2})
SpecDegraded == InitDegraded /\ [][NextDegraded]_vars

\* load_snapshot on snapshot files written by an older version: JSON
\* objects that lack some keys of the schema, lack nested keys of a
\* sub-object, and may hold a key the schema does not know
Entry(k, present, v) == IF present THEN k :> v ELSE EmptyDoc

StoredPayload == Serialized(NewPayload(1, 1), "synced")

StatusFiles ==
    {Entry("state", st # "absent", st) @@ Entry("response_code", code >= 0, code)
        @@ Entry("error", err >= 0, err) :
     st \in {"absent", "none", "synced"}, code \in {-1, 0, 200}, err \in {-1, 0}}

SnapshotFiles ==
    {Entry("cached_records", cached, <<>>)
        @@ Entry("recent_payloads", recent >= 0,
                 IF recent = 1 THEN <<StoredPayload>> ELSE <<>>)
        @@ Entry("last_payload", last, StoredPayload)
        @@ Entry("last_crm_status", DOMAIN status # {"none"}, status)
        @@ Entry("legacy", legacy, 1) :
     cached \in BOOLEAN, recent \in {-1, 0, 1}, last \in BOOLEAN,
     status \in StatusFiles \cup {Entry("none", TRUE, 0)}, legacy \in BOOLEAN}

InitLoad ==
    /\ InitMemory
    /\ scenario = Scenario(0, 1, 0, 0, 0, 0, 0, {"ok"}, {Ui})
    /\ snapshot \in SnapshotFiles
    /\ ops_log = <<>>
    /\ env_max_retries = 1
    /\ clock = 1
    /\ uuid_count = 0
    /\ delivered = {}
    /\ hist = InitHist
    /\ calls = <<>>
    /\ first_id = <<>>
    /\ crm_sample = SampleLedger

SpecLoad == InitLoad /\ [][LoadSnapshotCall]_vars

\* load_snapshot and save_snapshot on a snapshot file of any content:
\* the texts that are no object, and objects that lack keys, hold a
\* partial or a non-object status, or hold an unknown key
StoredStatus ==
    {Obj(EmptyDoc), Obj("state" :> 5), Obj("state" :> 5 @@ "error" :> 6),
     Obj("state" :> 5 @@ "old" :> 4), Other(3)}

StoredLegacy == {Obj("a" :> 1), Other(2)}

StoredDocuments ==
    {Entry("last_crm_status", status # Other(0), status)
        @@ Entry("legacy", legacy # Other(0), legacy)
        @@ Entry("recent_payloads", recent, Other(1))
        @@ Entry("ai_latency_totals", totals, Obj("transcribe" :> 2)) :
     status \in StoredStatus \cup {Other(0)},
     legacy \in StoredLegacy \cup {Other(0)},
     recent \in BOOLEAN, totals \in BOOLEAN}

StoredFiles ==
    {ObjectFile(doc) : doc \in StoredDocuments}
        \cup {TextFile(kind) : kind \in TextKinds}

InitStore ==
    /\ InitMemory
    /\ scenario = Scenario(0, MaxClock, 0, 0, 0, 0, 0, {"ok"}, {Ui})
    /\ snapshot \in StoredFiles
    /\ ops_log = <<>>
    /\ env_max_retries = 1
    /\ clock = 1
    /\ uuid_count = 0
    /\ delivered = {}
    /\ hist = InitHist
    /\ calls = <<>>
    /\ first_id = <<>>
    /\ crm_sample = SampleLedger

NextStore ==
    \/ LoadFile
    \/ SaveSnapshotCall
    \/ Tick

SpecStore == InitStore /\ [][NextStore]_vars

\* the snapshot file, seeded at start-up, with the UI thread's loads and
\* telemetry saves and the worker's delivery records running concurrently
InitShared ==
    /\ InitMemory
    /\ scenario = Scenario(0, MaxClock, 0, 0, 0, 0, 0, {"ok"}, {Ui})
    /\ snapshot = ObjectFile(BaseDocument)
    /\ ops_log = <<>>
    /\ env_max_retries = 1
    /\ clock = 1
    /\ uuid_count = 0
    /\ delivered = {}
    /\ hist = InitHist
    /\ calls = <<>>
    /\ first_id = <<>>
    /\ crm_sample = SampleLedger

NextShared ==
    \/ UiLoadSnapshot
    \/ UiSaveTelemetry
    \/ WorkerUpdateSnapshot
    \/ \E t \in Threads : FileRead(t)
    \/ \E t \in Threads : FileMerge(t)
    \/ \E t \in Threads : FileTruncate(t)
    \/ \E t \in Threads : FileWrite(t)

SpecShared == InitShared /\ [][NextShared]_vars

\* producer, worker, offline toggle and a restart of the process
NextRestart ==
    \/ EnqueueCrmPush
    \/ SaveAndQueueCrmPayload
    \/ Tick
    \/ ToggleOffline
    \/ WorkerPop
    \/ WorkerProcess
    \/ WorkerSendDone
    \/ \E s \in scenario.sessions : StartCheck(s)
    \/ \E s \in scenario.sessions : StartSpawn(s)
    \/ Restart

InitRestart ==
    InitWith(Scenario(MaxEnqueue, MaxClock, MaxToggles, 0, 0, 0, MaxRestarts,
                      {"ok", "error"}, {Ui}), {1, 2})
SpecRestart == InitRestart /\ [][NextRestart]_vars

\* producer, worker and offline toggle; file writes may fail and the
\* configured retry ceiling may be unparsable
InitFaults ==
    InitWith(Scenario(MaxEnqueue, MaxClock, MaxToggles, 0, 0, MaxFaults, 0,
                      Outcomes, {Ui}), {BadValue, 1, 2})
SpecFaults == InitFaults /\ [][NextDelivery]_vars

----------------------------------------------------------------------------
(* Helpers of the properties *)

\* the Ops Log records with status `label` written for note u
LogCount(label, u) ==
    Cardinality({i \in 1..Len(ops_log) :
                    ops_log[i].status = label /\ ops_log[i].uid = u})

SyncedRecords == SelectSeq(ops_log, LAMBDA r : r.status = "synced")

Last(s) == s[Len(s)]

CacheEntries(u) == {i \in 1..Len(offline_cache) : offline_cache[i].uid = u}
QueueEntries(u) == {i \in 1..Len(crm_queue) : crm_queue[i].uid = u}

\* notes enqueued so far; they are numbered in enqueue order
EnqueuedNotes == 1..hist.enq

\* delivery attempts of the worker for note u that have returned
AttemptsDone(u) ==
    IF wpc = "sending" /\ wcur.uid = u THEN calls[u] - 1 ELSE calls[u]

Min(a, b) == IF a < b THEN a ELSE b

----------------------------------------------------------------------------
(* C2: bounded retry.  With max retries N, offline mode off and a delivery
   client that always returns error, the worker calls the client exactly N
   times for an enqueued payload: each of the first N-1 failures is logged
   `retrying` and re-appends the payload at the queue tail with its attempt
   counter incremented by one, the N-th is logged `failed` and puts the
   payload in the offline cache, and there is no (N+1)-th attempt. *)
BoundedRetryState ==
    \A u \in EnqueuedNotes :
        /\ calls[u] <= MaxRetries
        /\ LogCount("retrying", u) = Min(AttemptsDone(u), MaxRetries - 1)
        /\ LogCount("failed", u) =
               (IF AttemptsDone(u) = MaxRetries THEN 1 ELSE 0)
        /\ Cardinality(CacheEntries(u)) =
               (IF AttemptsDone(u) = MaxRetries THEN 1 ELSE 0)
        /\ \A i \in CacheEntries(u) : offline_cache[i].att = MaxRetries
        /\ \A i \in QueueEntries(u) :
               RetryAttempts(crm_queue[i]) = AttemptsDone(u)
        /\ AttemptsDone(u) = MaxRetries =>
               QueueEntries(u) = {} /\ wcur.uid # u

BoundedRetryStep ==
    (wpc = "sending" /\ wpc' = "idle") =>
        LET k == RetryAttempts(wcur) + 1
        IN  IF k < MaxRetries
            THEN /\ Len(crm_queue') = Len(crm_queue) + 1
                 /\ Last(crm_queue').uid = wcur.uid
                 /\ Last(crm_queue').att = k
                 /\ Last(ops_log').status = "retrying"
                 /\ Last(ops_log').uid = wcur.uid
                 /\ offline_cache' = offline_cache
            ELSE /\ crm_queue' = crm_queue
                 /\ Last(ops_log').status = "failed"
                 /\ Last(ops_log').uid = wcur.uid
                 /\ Len(offline_cache') = Len(offline_cache) + 1
                 /\ Last(offline_cache').uid = wcur.uid

BoundedRetry == [](BoundedRetryState) /\ [][BoundedRetryStep]_vars

\* a payload went through two retries and was then cached as failed
BoundedRetryWitness ==
    \E u \in EnqueuedNotes :
        /\ MaxRetries = 3
        /\ calls[u] = 3
        /\ CacheEntries(u) # {}
        /\ LogCount("retrying", u) = 2
        /\ LogCount("failed", u) = 1

----------------------------------------------------------------------------
(* C6: ordering.  With offline mode off and every delivery attempt
   succeeding, the worker removes payloads from the queue head in enqueue
   order, the `synced` records of the Ops Log appear in the order of the
   enqueues, and enqueue appends at the tail and drops no payload. *)
FifoOrder ==
    /\ \A i \in 1..Len(SyncedRecords) : SyncedRecords[i].uid = i
    /\ \A i, j \in 1..Len(crm_queue) :
           i < j => crm_queue[i].uid < crm_queue[j].uid
    /\ wcur.uid # 0 =>
           \A i \in 1..Len(crm_queue) : wcur.uid < crm_queue[i].uid
    /\ \A u \in EnqueuedNotes :
           \/ QueueEntries(u) # {}
           \/ wcur.uid = u
           \/ u \in delivered /\ LogCount("synced", u) = 1

\* three payloads were synced while others were enqueued behind them
FifoOrderWitness ==
    /\ Len(SyncedRecords) = 3
    /\ hist.enq = 3

----------------------------------------------------------------------------
(* C1: no payload is lost.  Without a process restart, every enqueued
   payload that was not yet delivered with outcome ok is in the pending
   queue, being processed by the worker, or in the offline cache. *)
NoPayloadLost ==
    \A u \in EnqueuedNotes \ delivered :
        \/ QueueEntries(u) # {}
        \/ wcur.uid = u
        \/ CacheEntries(u) # {}

----------------------------------------------------------------------------
(* C3: flush keeps what it could not deliver.  When flush_offline_cache
   returns (offline mode off), every entry whose attempt in this flush
   failed is in the offline cache with its attempt counter incremented,
   below the retry ceiling or at it; an entry leaves the cache in a flush
   only when its payload was delivered. *)
FlushReturns == fpc = "iter" /\ fpc' = "idle" /\ flush'.returned >= 0

FlushKeepsFailedStep ==
    FlushReturns =>
        /\ \A f \in flush.failed : f \in SeqToSet(offline_cache')
        /\ \A e \in SeqToSet(flush.list) :
               e.uid \in Uids(offline_cache') \/ e.uid \in delivered

FlushKeepsFailed == [][FlushKeepsFailedStep]_vars

----------------------------------------------------------------------------
(* C4: offline round trip.  A payload the worker processes while the
   offline flag is set is appended to the offline cache and recorded
   `cached`; when flush_offline_cache then delivers an entry, the snapshot
   shows `synced` with that payload first in recent_payloads, and when the
   flush returns its count is at least 1 and no entry with the Payload ID
   of a delivered entry is in the offline cache. *)
OfflineRoundTripStep ==
    /\ (wpc = "popped" /\ offline /\ wpc' = "idle") =>
           /\ Len(offline_cache') = Len(offline_cache) + 1
           /\ Last(offline_cache').uid = wcur.uid
           /\ Last(ops_log').status = "cached"
           /\ session'.last_crm_status.state = "cached"
    /\ (fpc = "sending" /\ fpc' = "iter" /\ flush'.flushed > flush.flushed) =>
           /\ snapshot'.last_crm_status.state = "synced"
           /\ snapshot'.recent_payloads[1].uid = flush.cur.uid
           /\ ExistingId(snapshot'.recent_payloads[1]) = ExistingId(flush.cur)
    /\ (FlushReturns /\ flush.delivered # {}) =>
           /\ flush'.returned >= 1
           /\ \A d \in flush.delivered :
                  \A i \in 1..Len(offline_cache') :
                      ExistingId(offline_cache'[i]) # ExistingId(d)

OfflineRoundTrip == [][OfflineRoundTripStep]_vars

----------------------------------------------------------------------------
(* C5: stable Payload ID.  The Payload ID a payload has at its first
   processing is the Payload ID of every requeued copy, of its offline
   cache entry, and of the snapshot's last_payload once the payload's
   final outcome is recorded. *)
KeepsFirstId(p) == first_id[p.uid] # 0 => ExistingId(p) = first_id[p.uid]

StablePayloadId ==
    /\ \A i \in 1..Len(crm_queue) : KeepsFirstId(crm_queue[i])
    /\ \A i \in 1..Len(offline_cache) : KeepsFirstId(offline_cache[i])
    /\ wpc = "sending" => KeepsFirstId(wcur)
    /\ snapshot.last_crm_status.state \in {"synced", "failed", "cached"} =>
           KeepsFirstId(snapshot.last_payload)

----------------------------------------------------------------------------
(* C7: the offline cache survives a restart.  After a process restart every
   payload that was held in the offline cache and not yet delivered is
   still held for retry: start-up recovers it from the persisted snapshot
   into the offline cache. *)
RestartKeepsCacheStep ==
    hist'.restarts > hist.restarts =>
        \A u \in Uids(offline_cache) \ delivered :
            u \in Uids(offline_cache')

RestartKeepsCache == [][RestartKeepsCacheStep]_vars

----------------------------------------------------------------------------
(* C8: the worker loop never terminates because of one payload: no failure
   while a payload is processed propagates out of _worker_loop. *)
WorkerNeverDies == wpc # "dead"

----------------------------------------------------------------------------
(* C9: at most one CRM worker thread is alive in the process, for any
   number of start_crm_worker calls, one after another or interleaved. *)
AtMostOneWorker == Cardinality(worker_threads) <= 1

----------------------------------------------------------------------------
(* C10: at most one delivery attempt is in progress at any time: an attempt
   of the worker thread and an attempt of flush_offline_cache never
   overlap. *)
NoParallelAttempts == ~(wpc = "sending" /\ fpc = "sending")

----------------------------------------------------------------------------
(* C11: retry then success.  With max retries N, offline mode off and a
   delivery client that returns error k times (k < N) and then ok for a
   payload, the Ops Log records of that payload are exactly k `retrying`
   records followed by one `synced` record, the snapshot's
   last_crm_status.state is `synced` once the success is recorded, and the
   offline cache holds no entry for the payload. *)
RecordsOf(u) == SelectSeq(ops_log, LAMBDA r : r.uid = u)

RetryThenSyncedState ==
    \A u \in EnqueuedNotes :
        LET errors == IF u \in delivered THEN AttemptsDone(u) - 1
                      ELSE AttemptsDone(u)
            records == RecordsOf(u)
        IN  /\ LogCount("retrying", u) = Min(errors, MaxRetries - 1)
            /\ \A i \in 1..Min(errors, MaxRetries - 1) :
                   records[i].status = "retrying"
            /\ u \in delivered =>
                   /\ errors < MaxRetries
                   /\ Len(records) = errors + 1
                   /\ Last(records).status = "synced"
                   /\ CacheEntries(u) = {}
                   /\ QueueEntries(u) = {}

RetryThenSyncedStep ==
    delivered' # delivered =>
        /\ snapshot'.last_crm_status.state = "synced"
        /\ snapshot'.last_crm_status.response_code = 200
        /\ Last(ops_log').status = "synced"
        /\ Last(ops_log').uid = wcur.uid

RetryThenSynced == [](RetryThenSyncedState) /\ [][RetryThenSyncedStep]_vars

\* max retries 3: a payload failed twice and was then delivered
RetryThenSyncedWitness ==
    \E u \in EnqueuedNotes :
        /\ MaxRetries = 3
        /\ u \in delivered
        /\ calls[u] = 3
        /\ LogCount("retrying", u) = 2
        /\ LogCount("synced", u) = 1
        /\ snapshot.last_crm_status.state = "synced"
        /\ offline_cache = <<>>

----------------------------------------------------------------------------
(* C12: the retry loop terminates.  With a worker that keeps taking steps
   and a producer and operator that make finitely many enqueues and manual
   retries, for any delivery outcomes the pending queue is eventually empty
   for good, and every enqueued payload is eventually recorded `synced` or
   held in the offline cache: no payload is requeued forever. *)
QueueDrained == crm_queue = <<>> /\ wcur = NoPayload /\ wpc = "idle"

Settled(u) == LogCount("synced", u) > 0 \/ CacheEntries(u) # {}

NoRequeueForever ==
    /\ <>[]QueueDrained
    /\ \A u \in 1..SmallMaxEnqueue : <>(hist.enq >= u) => <>Settled(u)

\* a payload was requeued after a failure, then settled, and the queue is
\* drained
NoRequeueForeverWitness ==
    /\ QueueDrained
    /\ hist.enq = SmallMaxEnqueue
    /\ \E u \in EnqueuedNotes : LogCount("retrying", u) > 0 /\ Settled(u)
    /\ \A u \in EnqueuedNotes : Settled(u)

----------------------------------------------------------------------------
(* C13: no delivery attempt is started while the offline flag is set.  A
   payload the worker picks up with the flag set is appended to the offline
   cache and recorded `cached`, its attempt counter unchanged, without a
   call of the delivery client; flush_offline_cache called with the flag
   set calls the client for no entry, returns 0 and leaves the offline
   cache unchanged. *)
NoAttemptOfflineStep ==
    /\ (wpc = "popped" /\ wpc' # "popped" /\ offline) =>
           /\ wpc' = "idle"
           /\ calls' = calls
           /\ delivered' = delivered
           /\ crm_queue' = crm_queue
           /\ Len(offline_cache') = Len(offline_cache) + 1
           /\ SubSeq(offline_cache', 1, Len(offline_cache)) = offline_cache
           /\ Last(offline_cache').uid = wcur.uid
           /\ Last(offline_cache').att = RetryAttempts(wcur)
           /\ Last(offline_cache').cached
           /\ Last(ops_log').status = "cached"
           /\ Last(ops_log').uid = wcur.uid
           /\ session'.last_crm_status.state = "cached"
    /\ (hist'.flushes > hist.flushes /\ offline) =>
           /\ fpc' = "idle"
           /\ flush'.returned = 0
           /\ offline_cache' = offline_cache
           /\ delivered' = delivered
           /\ ops_log' = ops_log
    /\ (wpc' = "sending" /\ wpc # "sending") => ~offline
    /\ (fpc' = "sending" /\ fpc # "sending") => ~offline

NoAttemptOffline == [][NoAttemptOfflineStep]_vars

\* offline: the worker cached a requeued payload and a flush returned 0
NoAttemptOfflineWitness ==
    /\ offline
    /\ flush.returned = 0
    /\ offline_cache # <<>>
    /\ Last(offline_cache).att = 1
    /\ Last(ops_log).status = "cached"
    /\ wpc = "idle"

----------------------------------------------------------------------------
(* C14: a toggle of the offline flag while the worker's delivery attempt
   for a payload is in flight does not change what happens to that payload.
   The attempt began with the flag clear, so its outcome is recorded as if
   the flag had stayed clear: `synced` on success, on failure `retrying`
   with a requeue below the retry ceiling and `failed` at the ceiling. *)
ToggleInFlightStep ==
    (wpc = "sending" /\ wpc' = "idle") =>
        LET k == RetryAttempts(wcur) + 1
        IN  \/ /\ Last(ops_log').status = "synced"
               /\ crm_queue' = crm_queue
            \/ /\ k < MaxRetries
               /\ Last(ops_log').status = "retrying"
               /\ crm_queue' = Append(crm_queue, Failed(wcur, ResultOf("error")))
                  \/ crm_queue' = Append(crm_queue, Failed(wcur, ResultOf("raised")))
               /\ offline_cache' = offline_cache
            \/ /\ k >= MaxRetries
               /\ Last(ops_log').status = "failed"
               /\ crm_queue' = crm_queue

ToggleInFlight == [][ToggleInFlightStep]_vars

----------------------------------------------------------------------------
(* C15: an exception raised by the delivery client is handled like an
   `error` outcome with no response code and the exception text as error:
   it counts as one attempt toward the retry ceiling, and the payload is
   recorded `retrying` and requeued, or recorded `failed` and cached; it is
   never recorded `synced` and never dropped. *)
ClientRaised == wpc = "sending" /\ wpc' = "idle" /\ Last(ops_log').crm_error = 2

ClientRaiseStep ==
    ClientRaised =>
        LET k == RetryAttempts(wcur) + 1
            failed == [wcur EXCEPT !.att = k, !.err = 2]
        IN  /\ Last(ops_log').crm_response_code = 0
            /\ Last(ops_log').crm_attempts = k
            /\ Last(ops_log').uid = wcur.uid
            /\ delivered' = delivered
            /\ session'.last_crm_status.error = 2
            /\ \/ /\ Last(ops_log').status = "retrying"
                  /\ k < MaxRetries
                  /\ crm_queue' = Append(crm_queue, failed)
                  /\ offline_cache' = offline_cache
               \/ /\ Last(ops_log').status = "failed"
                  /\ k >= MaxRetries \/ offline
                  /\ offline_cache' = Append(offline_cache, CachedCopy(failed))
                  /\ crm_queue' = crm_queue

ClientRaise == [][ClientRaiseStep]_vars

\* the client raised twice for a payload: requeued first, then cached
ClientRaiseWitness ==
    \E u \in EnqueuedNotes :
        /\ \E i \in 1..Len(ops_log) :
               /\ ops_log[i].uid = u
               /\ ops_log[i].status = "retrying"
               /\ ops_log[i].crm_error = 2
        /\ \E i \in 1..Len(ops_log) :
               /\ ops_log[i].uid = u
               /\ ops_log[i].status = "failed"
               /\ ops_log[i].crm_error = 2
        /\ \E i \in CacheEntries(u) : offline_cache[i].err = 2
        /\ ~offline

----------------------------------------------------------------------------
(* C16: terminal failure.  When a delivery attempt of the worker fails and
   the incremented attempt count reaches the retry ceiling, the payload is
   appended to the offline cache carrying the last error and its attempt
   count, the status recorded is `failed` with the response code and error
   of the attempt, the payload is not re-appended to the pending queue, and
   the manual retry becomes available. *)
FailedAtCeiling ==
    /\ wpc = "sending" /\ wpc' = "idle"
    /\ Last(ops_log').status # "synced"
    /\ RetryAttempts(wcur) + 1 >= MaxRetries

TerminalFailureStep ==
    FailedAtCeiling =>
        LET k == RetryAttempts(wcur) + 1
            entry == Last(offline_cache')
            record == Last(ops_log')
        IN  /\ Len(offline_cache') = Len(offline_cache) + 1
            /\ SubSeq(offline_cache', 1, Len(offline_cache)) = offline_cache
            /\ entry = [wcur EXCEPT !.att = k, !.err = entry.err, !.cached = TRUE]
            /\ entry.err \in {1, 2}
            /\ record.status = "failed"
            /\ record.uid = wcur.uid
            /\ record.crm_error = entry.err
            /\ record.crm_response_code = (IF entry.err = 1 THEN 503 ELSE 0)
            /\ record.crm_attempts = k
            /\ session'.last_crm_status =
                   [state |-> "failed", response_code |-> record.crm_response_code,
                    error |-> entry.err]
            /\ snapshot'.last_crm_status = session'.last_crm_status
            /\ crm_queue' = crm_queue
            /\ session'.crm_retry_available

TerminalFailure == [][TerminalFailureStep]_vars

\* max retries 2: the second attempt of a payload failed and it was cached
TerminalFailureWitness ==
    /\ MaxRetries = 2
    /\ ~offline
    /\ crm_queue = <<>>
    /\ wpc = "idle"
    /\ offline_cache # <<>>
    /\ Last(offline_cache).att = 2
    /\ Last(offline_cache).err = 1
    /\ session.last_crm_status.state = "failed"
    /\ session.crm_retry_available
    /\ LogCount("retrying", Last(offline_cache).uid) = 1

----------------------------------------------------------------------------
(* C17: when the worker delivers a payload successfully, every offline
   cache entry that shares the payload's Payload ID is removed: once the
   `synced` outcome is recorded no entry with that ID is in the offline
   cache, and a payload that failed into the cache, was re-enqueued and is
   now delivered has no entry left in it. *)
WorkerSynced ==
    wpc = "sending" /\ wpc' = "idle" /\ Last(ops_log').status = "synced"

SyncedClearsCacheStep ==
    WorkerSynced =>
        /\ \A i \in 1..Len(offline_cache') :
               /\ ExistingId(offline_cache'[i]) # ExistingId(wcur)
               /\ offline_cache'[i].uid # wcur.uid
        /\ SeqToSet(offline_cache') \subseteq SeqToSet(offline_cache)
        /\ Last(ops_log').uid = wcur.uid

SyncedClearsCache == [][SyncedClearsCacheStep]_vars

\* a payload with a ts failed into the cache, was retried by hand with its
\* entry still cached, and was then delivered
SyncedClearsCacheWitness ==
    \E u \in EnqueuedNotes :
        /\ hist.manual = 1
        /\ first_id[u] # 0 /\ first_id[u] < UuidBase
        /\ LogCount("failed", u) = 1
        /\ LogCount("synced", u) = 1
        /\ CacheEntries(u) = {}

----------------------------------------------------------------------------
(* C18: the manual retry re-enqueues the payload most recently placed in
   the offline cache: after it runs, that payload is at the tail of the
   pending queue with its attempt counter 0, the same Payload ID and no
   cache or error bookkeeping fields. *)
ManualRetryStep ==
    hist'.manual > hist.manual =>
        /\ offline_cache # <<>>
        /\ Len(crm_queue') = Len(crm_queue) + 1
        /\ Last(crm_queue').uid = Last(offline_cache).uid
        /\ ExistingId(Last(crm_queue')) = ExistingId(Last(offline_cache))
        /\ Last(crm_queue').att = 0
        /\ Last(crm_queue').err = 0
        /\ ~Last(crm_queue').cached
        /\ Last(crm_queue').crm_status = "none"

ManualRetryLastCached == [][ManualRetryStep]_vars

----------------------------------------------------------------------------
(* C19: flush_offline_cache called with offline mode off makes exactly one
   delivery attempt for each entry of the offline cache and returns the
   number of entries whose attempt succeeded; exactly those entries are
   absent from the offline cache afterwards, and each of them is recorded
   `synced` with its cache bookkeeping fields stripped. *)
FlushDelivers == fpc = "sending" /\ fpc' = "iter" /\ flush'.flushed > flush.flushed

FlushContractStep ==
    /\ FlushDelivers =>
           /\ Last(ops_log').status = "synced"
           /\ Last(ops_log').uid = flush.cur.uid
           /\ session'.last_crm_payload.uid = flush.cur.uid
           /\ ~session'.last_crm_payload.cached
           /\ ~snapshot'.recent_payloads[1].cached
    /\ FlushReturns =>
           /\ flush.idx = Len(flush.list) + 1
           /\ flush'.returned = flush.flushed
           /\ flush.flushed + Len(offline_cache') = Len(flush.list)
           /\ \A d \in flush.delivered : d.uid \notin Uids(offline_cache')
           /\ \A i \in 1..Len(flush.list) :
                  \/ flush.list[i] \in flush.delivered
                  \/ flush.list[i].uid \in Uids(offline_cache')

FlushContract == [][FlushContractStep]_vars

----------------------------------------------------------------------------
(* C20: snapshot migration.  Loading a snapshot file that is a JSON object
   lacking some default keys returns a document with every top-level key of
   the default schema and every nested key of each default sub-object, with
   every value the file had unchanged; loading again returns the same
   document. *)
MigrationStep ==
    hist'.loads > hist.loads =>
        /\ DOMAIN BASE_SNAPSHOT \subseteq DOMAIN snapshot'
        /\ \A k \in DictKeys :
               DOMAIN BASE_SNAPSHOT[k] \subseteq DOMAIN snapshot'[k]
        /\ \A k \in DOMAIN snapshot :
               /\ k \in DOMAIN snapshot'
               /\ IF k \in DictKeys
                  THEN \A n \in DOMAIN snapshot[k] :
                          /\ n \in DOMAIN snapshot'[k]
                          /\ snapshot'[k][n] = snapshot[k][n]
                  ELSE snapshot'[k] = snapshot[k]
        /\ LoadSnapshot(snapshot') = snapshot'

----------------------------------------------------------------------------
(* C21: load_snapshot does not raise for any content of the snapshot file
   (missing file, empty file, truncated text, invalid JSON, or valid JSON
   whose top-level value is not an object), and in every case it returns a
   document that has every key of the default schema. *)
LoadReturns == hist'.loads > hist.loads

CorruptFileStep ==
    LoadReturns =>
        /\ hist'.load_errors = hist.load_errors
        /\ snapshot'.kind = "object"
        /\ DOMAIN BaseDocument \subseteq DOMAIN snapshot'.doc

CorruptFileTolerance == [][CorruptFileStep]_vars

\* the same for the texts json.loads rejects and for objects only
UnparsableFileStep ==
    (LoadReturns /\ ParsesToObject(snapshot)) => CorruptFileStep

UnparsableFileTolerance == [][UnparsableFileStep]_vars

----------------------------------------------------------------------------
(* C22: if writing the snapshot fails while the worker records a delivery
   outcome, the in-memory last_crm_payload and last_crm_status keep the
   values they had before that outcome, the snapshot-warning flags
   crm_snapshot_warning_pending and crm_snapshot_warning_logged are set,
   and the payload is still disposed of as its outcome requires: counted
   as delivered, or requeued with its attempt counter incremented, or
   appended to the offline cache. *)
SnapshotWriteFailed == hist'.snap_faults > hist.snap_faults

DisposedOf ==
    LET k == RetryAttempts(wcur) + 1
    IN  IF wpc = "popped"
        THEN /\ Len(offline_cache') = Len(offline_cache) + 1
             /\ Last(offline_cache').uid = wcur.uid
             /\ Last(offline_cache').cached
             /\ crm_queue' = crm_queue
             /\ delivered' = delivered
        ELSE \/ /\ delivered' = delivered \cup {wcur.uid}
                /\ wcur.uid \notin delivered
                /\ crm_queue' = crm_queue
                /\ Len(offline_cache') <= Len(offline_cache)
             \/ /\ k < MaxRetries /\ ~offline
                /\ crm_queue' = Append(crm_queue, [wcur EXCEPT !.att = k, !.err = 1])
                /\ offline_cache' = offline_cache
                /\ delivered' = delivered
             \/ /\ k >= MaxRetries \/ offline
                /\ offline_cache' =
                       Append(offline_cache,
                              [wcur EXCEPT !.att = k, !.err = 1, !.cached = TRUE])
                /\ crm_queue' = crm_queue
                /\ delivered' = delivered

SnapshotFailureStep ==
    SnapshotWriteFailed =>
        /\ session'.last_crm_payload = session.last_crm_payload
        /\ session'.last_crm_status = session.last_crm_status
        /\ session'.warning_pending
        /\ session'.warning_logged
        /\ DisposedOf

SnapshotFailureKeepsMemory == [][SnapshotFailureStep]_vars

\* the first failure of a payload was recorded, the snapshot write of its
\* second failed: memory still shows `retrying`, the payload is cached
SnapshotFailureWitness ==
    /\ hist.snap_faults = 1
    /\ session.last_crm_status.state = "retrying"
    /\ session.last_crm_payload.uid = 1
    /\ session.warning_pending
    /\ session.warning_logged
    /\ ops_log # <<>>
    /\ Last(ops_log).status = "failed"
    /\ CacheEntries(1) # {}
    /\ snapshot.last_crm_status.state = "retrying"

----------------------------------------------------------------------------
(* C23: the snapshot-degraded flag crm_snapshot_warning_pending is sticky.
   Once a failed snapshot write has set it, it stays set through re-runs of
   the script and through further failed writes, until the next delivery
   outcome whose snapshot write succeeds, and that write clears it. *)
RecordsOutcome ==
    \/ wpc = "sending" /\ wpc' # "sending"
    \/ wpc = "popped" /\ wpc' \notin {"popped", "sending"}

SnapshotWriteSucceeded == RecordsOutcome /\ ~SnapshotWriteFailed

StickyFlagStep ==
    /\ (session.warning_pending /\ ~SnapshotWriteSucceeded) =>
           session'.warning_pending
    /\ SnapshotWriteSucceeded => ~session'.warning_pending

StickyDegradedFlag == [][StickyFlagStep]_vars

\* the same for crm_snapshot_warning_logged, which no script run resets
StickyLoggedStep ==
    /\ (session.warning_logged /\ ~SnapshotWriteSucceeded) =>
           session'.warning_logged
    /\ SnapshotWriteSucceeded => ~session'.warning_logged

StickyLoggedFlag == [][StickyLoggedStep]_vars

----------------------------------------------------------------------------
(* C24: after every recorded delivery outcome whose snapshot write
   succeeds, the snapshot's recent_payloads has at most 5 entries, its
   first entry is the payload just recorded, and the entries after it are
   the previous entries in their previous order, the oldest dropped when
   the list would exceed 5. *)
RecentPayloadsStep ==
    SnapshotWriteSucceeded =>
        LET new == snapshot'.recent_payloads
            old == snapshot.recent_payloads
        IN  /\ Len(new) = Min(Len(old) + 1, RECENT_PAYLOAD_LIMIT)
            /\ new[1].uid = wcur.uid
            /\ new[1].ts = wcur.ts
            /\ ExistingId(new[1]) # 0
            /\ ExistingId(wcur) # 0 => ExistingId(new[1]) = ExistingId(wcur)
            /\ new[1].crm_status = snapshot'.last_crm_status.state
            /\ new[1].crm_status \in {"cached", "retrying", "synced", "failed"}
            /\ \A i \in 2..Len(new) : new[i] = old[i - 1]

RecentPayloads ==
    /\ [](Len(snapshot.recent_payloads) <= RECENT_PAYLOAD_LIMIT)
    /\ [][RecentPayloadsStep]_vars

\* six outcomes were recorded: the list holds the last five, newest first
RecentPayloadsWitness ==
    /\ Len(ops_log) = 6
    /\ Len(snapshot.recent_payloads) = 5
    /\ \A i \in 1..5 :
           /\ snapshot.recent_payloads[i].uid = ops_log[7 - i].uid
           /\ snapshot.recent_payloads[i].crm_status = ops_log[7 - i].status
    /\ snapshot.recent_payloads[1].uid # snapshot.recent_payloads[5].uid

----------------------------------------------------------------------------
(* C25: the snapshot's recent_payloads never contains two entries with the
   same Payload ID.  Recording a further outcome for a payload that is
   already in the list, such as `retrying` and later `synced`, leaves one
   entry for it, at the front, not two. *)
RecentPayloadsDistinct ==
    \A i, j \in 1..Len(snapshot.recent_payloads) :
        i # j => ExistingId(snapshot.recent_payloads[i])
                     # ExistingId(snapshot.recent_payloads[j])

----------------------------------------------------------------------------
(* C26: save_snapshot(update) leaves every top-level snapshot key that is
   not in the update unchanged, except last_sync, which it always sets to
   the current time.  For a key whose stored value and updated value are
   both objects it changes only the nested keys present in the update and
   keeps the other nested keys; for any other key of the update it replaces
   the stored value. *)
SaveReturns ==
    hist'.saves > hist.saves /\ hist'.load_errors = hist.load_errors

Same(a, b) == a.dict = b.dict /\ a.val = b.val

\* every nested key of `a` is in `b` with the same value
NestedKept(a, b, except) ==
    /\ b.dict
    /\ \A n \in DOMAIN a.val \ except :
           n \in DOMAIN b.val /\ b.val[n] = a.val[n]

\* the stored value of a key: the file's, or the default's for a key the
\* file lacks, which save_snapshot fills in before it merges
StoredValue(stored, k) ==
    IF k \in DOMAIN stored THEN stored[k]
    ELSE IF k \in DOMAIN BaseDocument THEN BaseDocument[k]
    ELSE Other(None)

\* the nested keys the default schema has under key k
DefaultNestedKeys(k) ==
    IF k \in DOMAIN BaseDocument /\ BaseDocument[k].dict
    THEN DOMAIN BaseDocument[k].val
    ELSE {}

SaveFrameStep ==
    SaveReturns =>
        LET stored == IF snapshot.kind = "object" THEN snapshot.doc ELSE EmptyDoc
            new == snapshot'.doc
            update == hist'.update
            touched == DOMAIN update \cup {"last_sync"}
        IN  /\ snapshot'.kind = "object"
            /\ DOMAIN new = DOMAIN stored \cup DOMAIN BaseDocument \cup touched
            /\ Same(new["last_sync"], Other(clock))
            /\ \A k \in DOMAIN stored \ touched :
                   IF stored[k].dict
                   THEN /\ NestedKept(stored[k], new[k], {})
                        /\ DOMAIN new[k].val \subseteq
                               DOMAIN stored[k].val \cup DefaultNestedKeys(k)
                   ELSE Same(new[k], stored[k])
            /\ \A k \in DOMAIN update \ {"last_sync"} :
                   LET old == StoredValue(stored, k)
                   IN  IF old.dict /\ update[k].dict
                       THEN /\ NestedKept(update[k], new[k], {})
                            /\ NestedKept(old, new[k], DOMAIN update[k].val)
                       ELSE Same(new[k], update[k])

----------------------------------------------------------------------------
(* C27: every lifecycle event of a payload (the enqueue `queued`, and
   `cached`, `retrying`, `synced`, `failed`) and every flush that delivered
   at least one entry (`flushed`) appends exactly one record with that
   status to the Ops Log, and no operation modifies or removes a record
   already written: the log only grows, each earlier state of it being a
   prefix of the later one. *)
OneRecord(statuses) ==
    /\ Len(ops_log') = Len(ops_log) + 1
    /\ Last(ops_log').status \in statuses

OpsLogGrows ==
    /\ Len(ops_log') >= Len(ops_log)
    /\ SubSeq(ops_log', 1, Len(ops_log)) = ops_log

\* the events after the enqueue
OutcomeLoggedStep ==
    /\ OpsLogGrows
    /\ (wpc = "popped" /\ wpc' = "idle") => OneRecord({"cached"})
    /\ (wpc = "sending" /\ wpc' = "idle") =>
           /\ OneRecord({"retrying", "synced", "failed"})
           /\ IF Last(ops_log').status = "synced"
              THEN wcur.uid \in delivered'
              ELSE delivered' = delivered
           /\ Last(ops_log').status = "retrying" <=> crm_queue' # crm_queue
    /\ (fpc = "sending" /\ fpc' = "iter") =>
           /\ OneRecord({"synced", "failed"})
           /\ Last(ops_log').status = "synced" <=> flush'.flushed > flush.flushed
    /\ FlushReturns =>
           IF flush.flushed > 0 THEN OneRecord({"flushed"})
           ELSE ops_log' = ops_log

OpsLogStep ==
    /\ OutcomeLoggedStep
    /\ hist'.enq > hist.enq => OneRecord({"queued"})

OpsLogComplete == [][OpsLogStep]_vars

OutcomesLogged == [][OutcomeLoggedStep]_vars

----------------------------------------------------------------------------
(* C28: the body transmitted to the CRM for a payload contains no
   crm_status block and no key prefixed `_crm_` other than the Payload ID,
   which is transmitted; every other field of the payload is transmitted
   unchanged, and the payload held by the caller is not stripped. *)
\* body is payload p without its bookkeeping fields
Stripped(body, p) ==
    /\ body.crm_status = "none"
    /\ body.att = -1
    /\ body.err = 0
    /\ body.uid = p.uid
    /\ body.ts = p.ts
    /\ body.cached = p.cached

WorkerSends == wpc' = "sending" /\ wpc # "sending"
FlushSends == fpc' = "sending" /\ fpc # "sending"

\* the caller's payload keeps its fields
CallerKeeps ==
    /\ WorkerSends => wcur' = GeneratePayloadId(wcur, UuidBase + uuid_count')
    /\ FlushSends => flush'.cur = flush.list[flush.idx] /\ flush'.list = flush.list

BodyStrippedStep ==
    /\ WorkerSends => Stripped(in_flight'.worker, wcur')
    /\ FlushSends => Stripped(in_flight'.flush, flush'.cur)
    /\ CallerKeeps

TransmittedBodyStep ==
    /\ BodyStrippedStep
    /\ WorkerSends => ExistingId(in_flight'.worker) = ExistingId(wcur')
    /\ FlushSends => ExistingId(in_flight'.flush) = ExistingId(flush'.cur)

TransmittedBody == [][TransmittedBodyStep]_vars

\* the same without the Payload ID
BodyStripped == [][BodyStrippedStep]_vars

----------------------------------------------------------------------------
(* C29: after any sequence of synced deliveries starting from a ledger
   whose row identities are unique, the CRM mirror has exactly one row per
   Payload ID that was synced.  Syncing a payload whose ID already has a
   row replaces that row in place, syncing a payload with a new ID appends
   one row, and no row with a different Payload ID is changed or removed. *)
RowIdsUnique(rows) ==
    \A i, j \in 1..Len(rows) : i # j => rows[i].id # rows[j].id

\* the ledger after the upsert of payload p under its Payload ID
Upserted(p) ==
    LET row == [id |-> ExistingId(p), uid |-> p.uid]
    IN  IF \E i \in 1..Len(crm_sample) : crm_sample[i].id = row.id
        THEN \E i \in 1..Len(crm_sample) :
                 /\ crm_sample[i].id = row.id
                 /\ crm_sample' = [crm_sample EXCEPT ![i] = row]
        ELSE crm_sample' = Append(crm_sample, row)

LedgerUpsertStep ==
    /\ WorkerSynced => Upserted(wcur)
    /\ FlushDelivers => Upserted(flush.cur)
    /\ ~(WorkerSynced \/ FlushDelivers) => crm_sample' = crm_sample

LedgerUpsert ==
    /\ [](RowIdsUnique(crm_sample))
    /\ [][LedgerUpsertStep]_vars

\* the same for the payloads that carry no customer_id
LedgerUpsertPlainStep ==
    /\ (WorkerSynced /\ wcur.cust = 0) => Upserted(wcur)
    /\ (FlushDelivers /\ flush.cur.cust = 0) => Upserted(flush.cur)
    /\ ~(WorkerSynced \/ FlushDelivers) => crm_sample' = crm_sample

LedgerUpsertPlain ==
    /\ [](RowIdsUnique(crm_sample))
    /\ [][LedgerUpsertPlainStep]_vars

----------------------------------------------------------------------------
(* C30: an invalid configuration (an unparsable timeout or max-retries
   value, a missing required credential) is reported when the worker is
   started; reading the configuration never raises while a payload is
   being processed by the worker or by flush. *)
\* _get_crm_config raised inside _process_payload / flush_offline_cache
RaisedInWorker == wpc = "popped" /\ wpc' = "dead" /\ ConfigRaises
RaisedInFlush ==
    fpc = "iter" /\ fpc' = "idle" /\ flush.idx <= Len(flush.list) /\ ConfigRaises

ConfigFailFastStep ==
    /\ ~RaisedInWorker
    /\ ~RaisedInFlush
    /\ ConfigRaises => worker_threads' \subseteq worker_threads

ConfigFailFast == [][ConfigFailFastStep]_vars

----------------------------------------------------------------------------
(* C31: after every recorded delivery outcome whose snapshot write
   succeeds, the snapshot's last_payload equals the payload just recorded
   with its crm_status: it is the same value as the in-memory
   last_crm_payload and as recent_payloads[0], and it holds no field left
   over from a previously recorded payload. *)
FlushRecordsOutcome == fpc = "sending" /\ fpc' # "sending"

SnapshotRecorded ==
    /\ RecordsOutcome \/ FlushRecordsOutcome
    /\ ~ConfigRaises
    /\ ~SnapshotWriteFailed

LastPayloadStep ==
    SnapshotRecorded =>
        /\ snapshot'.last_payload = session'.last_crm_payload
        /\ snapshot'.last_payload = snapshot'.recent_payloads[1]

LastPayloadFresh == [][LastPayloadStep]_vars

\* the same for the in-memory payload and the head of the history, and
\* for the keys of last_payload the recorded payload has
MemoryAndHistoryStep ==
    SnapshotRecorded =>
        LET recorded == session'.last_crm_payload
            stored == snapshot'.last_payload
        IN  /\ recorded = snapshot'.recent_payloads[1]
            /\ recorded.crm_status = snapshot'.last_crm_status.state
            /\ stored.uid = recorded.uid
            /\ stored.crm_status = recorded.crm_status
            /\ recorded.ts # 0 => stored.ts = recorded.ts
            /\ recorded.pid # 0 => stored.pid = recorded.pid
            /\ recorded.cached => stored.cached

MemoryAndHistory == [][MemoryAndHistoryStep]_vars

----------------------------------------------------------------------------
(* C32: each Ops Log record written for a delivery outcome carries the
   queue depth at that moment, the response code and error of that attempt,
   and crm_attempts equal to the number of delivery attempts made so far
   for that payload in the current cycle: k for the record of its k-th
   attempt, whether that record is `retrying`, `failed` or `synced`, and 0
   for `cached` without an attempt. *)
\* the response code and error a record with that status may carry
AttemptResult(record) ==
    IF record.status = "synced"
    THEN record.crm_response_code = 200 /\ record.crm_error = 0
    ELSE \/ record.crm_response_code = 503 /\ record.crm_error = 1
         \/ record.crm_response_code = 0 /\ record.crm_error = 2

\* the record of the worker's attempt that has just returned
AttemptRecord(record) ==
    /\ record.uid = wcur.uid
    /\ record.status \in {"retrying", "failed", "synced"}
    /\ record.queue_len = Len(crm_queue')
    /\ AttemptResult(record)

\* the record of a payload cached in offline mode
CachedRecord(record) ==
    /\ record.uid = wcur.uid
    /\ record.status = "cached"
    /\ record.queue_len = Len(crm_queue')
    /\ record.crm_response_code = 0
    /\ record.crm_error = 0
    /\ record.crm_attempts = calls[wcur.uid]

AttemptsRecordedStep ==
    /\ (wpc = "sending" /\ wpc' = "idle") =>
           /\ AttemptRecord(Last(ops_log'))
           /\ Last(ops_log').crm_attempts = calls[wcur.uid]
    /\ (wpc = "popped" /\ wpc' = "idle") => CachedRecord(Last(ops_log'))

AttemptsRecorded == [][AttemptsRecordedStep]_vars

\* the same with the attempt count required of the records of failed
\* attempts only
FailedAttemptsRecordedStep ==
    /\ (wpc = "sending" /\ wpc' = "idle") =>
           /\ AttemptRecord(Last(ops_log'))
           /\ Last(ops_log').status # "synced" =>
                  Last(ops_log').crm_attempts = calls[wcur.uid]
    /\ (wpc = "popped" /\ wpc' = "idle") => CachedRecord(Last(ops_log'))

FailedAttemptsRecorded == [][FailedAttemptsRecordedStep]_vars

----------------------------------------------------------------------------
(* C33: the body flush_offline_cache transmits for an entry of the offline
   cache equals the body the worker would transmit for the same payload on
   the direct path: it carries none of the cache bookkeeping fields
   _offline_cached, _cached_at and _gps. *)
\* the payload as it was before _cache_payload marked its copy
Uncached(entry) == [entry EXCEPT !.cached = FALSE]

FlushBodyStep ==
    FlushSends =>
        /\ ~in_flight'.flush.cached
        /\ in_flight'.flush = DeliveryBody(Uncached(flush.list[flush.idx]))

FlushBodyAsDirect == [][FlushBodyStep]_vars

\* the two bodies agree in every field but the cache bookkeeping
FlushBodyElseStep ==
    FlushSends =>
        Uncached(in_flight'.flush) = DeliveryBody(Uncached(flush.list[flush.idx]))

FlushBodyElse == [][FlushBodyElseStep]_vars

----------------------------------------------------------------------------
(* C34: immediately after each recorded delivery outcome,
   crm_retry_available is true exactly when the recorded state is `cached`
   or `failed`, and false when it is `synced` or `retrying`, whether the
   outcome was recorded by the worker or by flush_offline_cache. *)
OutcomeLogged ==
    /\ RecordsOutcome \/ FlushRecordsOutcome
    /\ Len(ops_log') = Len(ops_log) + 1

RetryAvailableStep ==
    OutcomeLogged =>
        /\ Last(ops_log').status \in {"cached", "failed", "synced", "retrying"}
        /\ session'.crm_retry_available <=>
               Last(ops_log').status \in {"cached", "failed"}

RetryAvailable == [][RetryAvailableStep]_vars

\* the worker recorded `retrying` and `failed` for a payload, and the flush
\* has just recorded `failed` for its cache entry: the retry is available
RetryAvailableWitness ==
    /\ fpc = "iter"
    /\ flush.failed # {}
    /\ LogCount("retrying", 1) = 1
    /\ LogCount("failed", 1) = 2
    /\ Last(ops_log).status = "failed"
    /\ session.crm_retry_available

----------------------------------------------------------------------------
(* C35: _crm_retry_in_progress is true exactly while a manually retried
   payload has not yet reached an outcome that will not be retried: the
   manual retry sets it, it stays set while that payload is pending or
   recorded `retrying`, it is cleared when `synced`, `failed` or `cached`
   is recorded for that payload, and with a running worker it is eventually
   cleared. *)
\* the manually retried payload is in the pending queue or with the worker
RetriedPending ==
    /\ hist.retried # 0
    /\ QueueEntries(hist.retried) # {} \/ wcur.uid = hist.retried

RetryInProgressExact == session.retry_in_progress <=> RetriedPending

RetryEventuallyCleared ==
    session.retry_in_progress ~> ~session.retry_in_progress

RetryInProgress == [](RetryInProgressExact) /\ RetryEventuallyCleared

\* the flag is set by the manual retry and only by it, it is never set
\* once the retried payload has left the queue and the worker, and a
\* record that is not `retrying` clears it
RetryFlagStep ==
    /\ hist'.manual > hist.manual => session'.retry_in_progress
    /\ (~session.retry_in_progress /\ session'.retry_in_progress) =>
           hist'.manual > hist.manual
    /\ (OutcomeLogged /\ Last(ops_log').status # "retrying") =>
           ~session'.retry_in_progress
    /\ (OutcomeLogged /\ Last(ops_log').status = "retrying") =>
           session'.retry_in_progress = session.retry_in_progress

RetryFlagSetAndCleared ==
    /\ [](session.retry_in_progress => RetriedPending)
    /\ [][RetryFlagStep]_vars
    /\ RetryEventuallyCleared

----------------------------------------------------------------------------
(* C36: a payload the worker thread appends to the offline cache while
   flush_offline_cache or the manual retry runs in the UI thread is in the
   offline cache after both have finished: the UI thread's replacement of
   the offline_cache list, and the worker's own replacement when it removes
   a synced entry, never discards an entry added concurrently by the other
   thread. *)
\* the entries of the cache the loop of the running flush has not been
\* given: the worker appended them to a list the flush does not iterate
AddedConcurrently == SeqToSet(offline_cache) \ SeqToSet(flush.list)

ConcurrentAppendStep ==
    /\ FlushReturns =>
           \A e \in AddedConcurrently : e \in SeqToSet(offline_cache')
    /\ hist'.manual > hist.manual =>
           \A e \in SeqToSet(offline_cache) :
               ExistingId(e) # ExistingId(session.last_crm_payload) =>
                   e \in SeqToSet(offline_cache')
    /\ WorkerSynced =>
           \A e \in SeqToSet(offline_cache) :
               ExistingId(e) # ExistingId(wcur) =>
                   e \in SeqToSet(offline_cache')

ConcurrentAppendKept == [][ConcurrentAppendStep]_vars

\* the replacements of the manual retry and of the worker alone
OtherReplacementsStep ==
    /\ hist'.manual > hist.manual =>
           \A e \in SeqToSet(offline_cache) :
               ExistingId(e) # ExistingId(session.last_crm_payload) =>
                   e \in SeqToSet(offline_cache')
    /\ WorkerSynced =>
           \A e \in SeqToSet(offline_cache) :
               ExistingId(e) # ExistingId(wcur) =>
                   e \in SeqToSet(offline_cache')

OtherReplacementsKeep == [][OtherReplacementsStep]_vars

----------------------------------------------------------------------------
(* C37: a delivery outcome the worker thread writes to the snapshot file is
   not lost to a concurrent load_snapshot or save_snapshot of the UI
   thread: under every interleaving of the two threads' file reads and
   writes, once both have finished the file holds the worker's latest
   last_payload and last_crm_status together with the UI thread's telemetry
   update. *)
BothFinished == \A t \in Threads : CallIdle(t)

\* the file holds the k-th outcome of the worker
HoldsOutcome(k) ==
    /\ snapshot.kind = "object"
    /\ Same(snapshot.doc["last_payload"], Obj("note" :> k))
    /\ snapshot.doc["last_crm_status"].dict
    /\ snapshot.doc["last_crm_status"].val["state"] = k
    /\ ~snapshot.doc["recent_payloads"].dict
    /\ snapshot.doc["recent_payloads"].val % 10 = k

\* the file holds the j-th telemetry update of the UI thread
HoldsTelemetry(j) ==
    /\ snapshot.kind = "object"
    /\ Same(snapshot.doc["ai_fail_count"], Other(j))
    /\ Same(snapshot.doc["ai_latency_totals"],
            Obj([transcribe |-> j, polish |-> j]))

SharedFileKeepsBoth ==
    BothFinished =>
        /\ file_io.recorded > 0 => HoldsOutcome(file_io.recorded)
        /\ file_io.saved > 0 => HoldsTelemetry(file_io.saved)

\* the same when no call began while the call of the other thread ran
SerialFileKeepsBoth == ~file_io.overlapped => SharedFileKeepsBoth

----------------------------------------------------------------------------
(* C38: any two payloads enqueued by separate save actions have different
   Payload IDs, including two saved within the same clock second, so that
   recording or syncing one of them never removes the offline cache entry
   of the other. *)
\* the payloads of save actions that the session holds
HeldSaved ==
    {p \in SeqToSet(crm_queue) \cup SeqToSet(offline_cache) \cup {wcur} :
        p.cust = DEMO_CUSTOMER}

SavedIdsDistinct ==
    \A p, q \in HeldSaved : p.uid # q.uid => ExistingId(p) # ExistingId(q)

SyncKeepsOthersStep ==
    WorkerSynced =>
        \A e \in SeqToSet(offline_cache) :
            e.uid # wcur.uid => e \in SeqToSet(offline_cache')

DistinctPayloadIds == [](SavedIdsDistinct) /\ [][SyncKeepsOthersStep]_vars

\* the same for payloads saved in different clock seconds
SavedLaterDistinct ==
    \A p, q \in HeldSaved :
        (p.uid # q.uid /\ p.ts # q.ts) => ExistingId(p) # ExistingId(q)

SyncKeepsLaterStep ==
    WorkerSynced =>
        \A e \in SeqToSet(offline_cache) :
            (e.uid # wcur.uid /\ e.cust = DEMO_CUSTOMER /\ e.ts # wcur.ts) =>
                e \in SeqToSet(offline_cache')

DistinctAcrossSeconds ==
    [](SavedLaterDistinct) /\ [][SyncKeepsLaterStep]_vars

\* the removal alone: a synced payload removes the entry of another
\* payload
SyncKeepsOthers == [][SyncKeepsOthersStep]_vars

----------------------------------------------------------------------------
(* C39: the offline cache never holds two entries with the same Payload
   ID, after any sequence of worker processing, terminal failures, offline
   caching, manual retries and flushes; in particular a manually retried
   payload that fails again is in the cache once, not twice. *)
CacheIdsDistinct ==
    \A i, j \in 1..Len(offline_cache) :
        i # j => ExistingId(offline_cache[i]) # ExistingId(offline_cache[j])

\* the same for the entries whose Payload ID is a generated
\* _crm_payload_id
GeneratedIdsDistinct ==
    \A i, j \in 1..Len(offline_cache) :
        (i # j /\ offline_cache[i].pid # 0) =>
            offline_cache[i].pid # offline_cache[j].pid

----------------------------------------------------------------------------
(* C40: whenever crm_retry_available is true, the in-memory
   last_crm_payload is the payload of the most recent `cached` or `failed`
   outcome and an entry with its Payload ID is in the offline cache, so
   that the manual retry never re-enqueues a payload that was already
   synced; this holds also after a delivery outcome whose snapshot write
   failed. *)
\* the payload the manual retry would re-enqueue is a cached one
RetryTarget(p) ==
    /\ p # NoPayload
    /\ p.crm_status \in {"cached", "failed"}
    /\ \E i \in 1..Len(offline_cache) :
           /\ offline_cache[i].uid = p.uid
           /\ ExistingId(offline_cache[i]) = ExistingId(p)
    /\ p.uid \notin delivered

RetryTargetsCached ==
    session.crm_retry_available => RetryTarget(session.last_crm_payload)

\* the same while every snapshot write has succeeded and the status in
\* memory is the one of a recorded outcome
RetryTargetsRecorded ==
    (/\ session.crm_retry_available
     /\ hist.snap_faults = 0
     /\ session.last_crm_status.state \in {"cached", "failed"}) =>
        RetryTarget(session.last_crm_payload)

====
